---- MODULE Spec2Model ----
(***************************************************************************)
(* Storefront of rose-bloom: the discount resolution of the product page   *)
(* (ProductPage) and of the admin dashboard (AdminPortal), the price       *)
(* computation, and the cart kept in localStorage / sessionStorage.        *)
(* Both components live in src/src/components/Productpage.jsx.             *)
(*                                                                         *)
(* Time is the millisecond count of a JavaScript Date, kept small.         *)
(* Percentages are whole numbers (the admin form passes parseFloat of a    *)
(* number input; fractions of a percent are outside the model).            *)
(***************************************************************************)
EXTENDS Integers, Sequences, FiniteSets, TLC

VARIABLES
    now,               \* the wall clock read by new Date() / Date.now()
    discountDocs,      \* the documents of the "discounts" collection, in snapshot order
    product,           \* ProductPage state: product
    discounts,         \* ProductPage state: discounts
    activeDiscount,    \* ProductPage state: activeDiscount
    quantity,          \* ProductPage state: quantity
    selectedVariation, \* ProductPage state: selectedVariation
    selectedSize,      \* ProductPage state: selectedSize
    showSuccess,       \* ProductPage state: showSuccess
    loading,           \* ProductPage state: loading
    location,          \* the router's location: the path and, on a product route, the id
    pendingFetches,    \* the getDoc calls of fetchProduct in flight, oldest first
    adminDiscounts,    \* AdminPortal state: discounts
    localStorage,      \* localStorage: the value under 'cartItems' and whether the store throws
    sessionStorage,    \* sessionStorage: the value under 'cartItems' and whether the store throws
    buyNowItem,        \* sessionStorage: the value under 'buyNowItem'
    alerts,            \* the number of window.alert dialogs the product page has raised
    pageError,         \* an error left uncaught by the product page's effects
    discountSuccessMsg, \* AdminPortal state: discountSuccessMsg
    successMsg,        \* AdminPortal state: successMsg
    productWrites,     \* the writes of AdminPortal the "products" collection has taken
    adminConsole,      \* the number of console.error calls of the AdminPortal handlers
    discountLoading,   \* AdminPortal state: discountLoading
    AP_loading,        \* AdminPortal state: loading
    pendingDiscountWrite, \* the addDoc of handleDiscountSubmit in flight
    pendingProductWrite,  \* the addDoc / updateDoc of handleSubmit in flight
    tabs               \* the product pages of two tabs that share localStorage

vars == <<now, discountDocs, product, discounts, activeDiscount, quantity,
          selectedVariation, selectedSize, showSuccess, adminDiscounts,
          localStorage, sessionStorage, buyNowItem, alerts, pageError,
          discountSuccessMsg, successMsg, productWrites, adminConsole,
          loading, location, pendingFetches, discountLoading, AP_loading,
          pendingDiscountWrite, pendingProductWrite, tabs>>

pageVars == <<product, discounts, activeDiscount, quantity, selectedVariation,
              selectedSize, showSuccess, loading>>

routeVars == <<location, pendingFetches>>

storageVars == <<localStorage, sessionStorage>>

buyVars == <<buyNowItem, alerts>>

adminFormVars == <<discountSuccessMsg, successMsg, productWrites, adminConsole>>

adminAsyncVars == <<discountLoading, AP_loading, pendingDiscountWrite,
                    pendingProductWrite>>

---------------------------------------------------------------------------
(* Bounds *)

MaxTime == 4
MaxSnapshot == 2
MaxPrice == 1000
MaxQuantity == 2
MaxShownQuantity == 3
MaxCartTime == 1
MaxCartQuantity == 2
MaxAlerts == 1
MaxDiscountDocs == 1
MaxProductWrites == 2
MaxConsoleErrors == 2
MaxPendingFetches == 2
MaxTabAdds == 2

---------------------------------------------------------------------------
(* JavaScript values *)

\* JavaScript null (useState(null), `|| null`).
Null == [null |-> TRUE]

\* JavaScript undefined and NaN, where a property can hold them.
Undefined == [undefined |-> TRUE]
NaN == [nan |-> TRUE]

\* A Date: valid with a millisecond value, or Invalid Date (NaN).
Date(ms) == [valid |-> TRUE, ms |-> ms]
InvalidDate == [valid |-> FALSE, ms |-> 0]

\* Relational operators on Dates compare their numeric values; every
\* comparison with NaN is false.
DateGE(a, b) == a.valid /\ b.valid /\ a.ms >= b.ms
DateLE(a, b) == a.valid /\ b.valid /\ a.ms <= b.ms
DateGT(a, b) == a.valid /\ b.valid /\ a.ms > b.ms
DateLT(a, b) == a.valid /\ b.valid /\ a.ms < b.ms

\* Field values of a stored document: a store timestamp (has toDate), a
\* string, or null. A field the document does not have is a key the
\* record does not have.
Timestamp(ms) == [kind |-> "timestamp", ms |-> ms, text |-> ""]
StringValue(s) == [kind |-> "string", ms |-> 0, text |-> s]
NullValue == [kind |-> "null", ms |-> 0, text |-> ""]

\* The document d without the field key.
WithoutField(d, key) == [k \in DOMAIN d \ {key} |-> d[k]]

\* The TypeError of a property read on undefined.
TypeError == [error |-> "TypeError"]

\* The ISO date strings of the instants 0, 1, 2, ... ms.
IsoStrings ==
    << "1970-01-01T00:00:00.000Z", "1970-01-01T00:00:00.001Z",
       "1970-01-01T00:00:00.002Z", "1970-01-01T00:00:00.003Z",
       "1970-01-01T00:00:00.004Z", "1970-01-01T00:00:00.005Z",
       "1970-01-01T00:00:00.006Z", "1970-01-01T00:00:00.007Z" >>

\* Date.toISOString() of the instant ms.
toISOString(ms) == IsoStrings[ms + 1]

\* new Date(string): the instant an ISO string denotes, Invalid Date for
\* any other text.
DateParse(s) ==
    IF \E i \in 1..Len(IsoStrings) : IsoStrings[i] = s
    THEN Date((CHOOSE i \in 1..Len(IsoStrings) : IsoStrings[i] = s) - 1)
    ELSE InvalidDate

\* value?.toDate ? value.toDate() : new Date(value)
\* (new Date(null) is the epoch).
FieldToDate(v) ==
    CASE v.kind = "timestamp" -> Date(v.ms)
      [] v.kind = "string"    -> DateParse(v.text)
      [] OTHER                -> Date(0)

---------------------------------------------------------------------------
(* Catalog: the documents of the "products" collection *)

ProductIds == {"p1", "p2"}

\* A product that is not available, and an id under which the collection
\* holds no document.
UnavailableId == "p3"
MissingId == "p0"

\* docSnap.exists()
DocExists(id) == id \in ProductIds \cup {UnavailableId}

ProductDoc(id) ==
    IF id = "p1"
    THEN [id |-> "p1", title |-> "Rose", coverImage |-> "rose.jpg",
          price |-> 1000, available |-> TRUE,
          variations |-> <<"red", "blue">>, sizes |-> <<"M">>]
    ELSE IF id = "p2"
    THEN [id |-> "p2", title |-> "Lily", coverImage |-> "lily.jpg",
          price |-> 45, available |-> TRUE,
          variations |-> <<>>, sizes |-> <<"S", "M">>]
    ELSE [id |-> "p3", title |-> "Tulip", coverImage |-> "tulip.jpg",
          price |-> 200, available |-> FALSE,
          variations |-> <<>>, sizes |-> <<"M">>]

---------------------------------------------------------------------------
(* Routes *)

\* The locations of the router: the product route with its :id parameter
\* (useParams), the home route and the buy-now checkout.
ProductRoute(id) == [path |-> "/product/:id", id |-> id]
HomeRoute == [path |-> "/", id |-> ""]
BuyNowCheckoutRoute == [path |-> "/buynowcheckout", id |-> ""]

\* A getDoc call of fetchProduct in flight: the id it asks for, and whether
\* the page instance that started it is still mounted.
Fetch(id) == [id |-> id, live |-> TRUE]

\* The fetches in flight once the page that started them is taken down:
\* their results find no state to set.
Orphaned(fetches) == [i \in 1..Len(fetches) |-> [fetches[i] EXCEPT !.live = FALSE]]

\* The sequence s without its element at position i.
RemoveAt(s, i) == SubSeq(s, 1, i - 1) \o SubSeq(s, i + 1, Len(s))

---------------------------------------------------------------------------
(* Discount resolution *)

\* isDiscountActive with the start of the window excluded.
PP_isDiscountActive_openStart(discount, t) ==
    IF ~discount.isActive THEN FALSE
    ELSE LET startDate == FieldToDate(discount.startDate)
             endDate == FieldToDate(discount.endDate)
         IN  DateGT(Date(t), startDate) /\ DateLE(Date(t), endDate)

\* ProductPage.isDiscountActive, with t the value of new Date().
PP_isDiscountActive(discount, t) ==
    IF ~discount.isActive THEN FALSE
    ELSE LET startDate == FieldToDate(discount.startDate)
             endDate == FieldToDate(discount.endDate)
         IN  DateGE(Date(t), startDate) /\ DateLE(Date(t), endDate)

\* AdminPortal.isDiscountActive.
AP_isDiscountActive(discount, t) ==
    IF ~discount.isActive THEN FALSE
    ELSE LET startDate == FieldToDate(discount.startDate)
             endDate == FieldToDate(discount.endDate)
         IN  DateGE(Date(t), startDate) /\ DateLE(Date(t), endDate)

\* AdminPortal.getDiscountStatusText: the text of the status label, with t
\* the value of new Date().
getDiscountStatusText(discount, t) ==
    IF ~discount.isActive THEN "Disabled"
    ELSE LET startDate == FieldToDate(discount.startDate)
             endDate == FieldToDate(discount.endDate)
         IN  IF DateLT(Date(t), startDate) THEN "Scheduled"
             ELSE IF DateGT(Date(t), endDate) THEN "Expired"
             ELSE "Active"

\* Array.prototype.find with the product page's predicate: the first
\* element from index i on that targets the product and is active; Null
\* stands for undefined. The predicate reads discount.productIds.includes
\* first, which throws a TypeError on a document without productIds.
RECURSIVE PP_find(_, _, _, _)
PP_find(ds, i, p, t) ==
    IF i > Len(ds) THEN Null
    ELSE IF "productIds" \notin DOMAIN ds[i] THEN TypeError
    ELSE IF p.id \in ds[i].productIds /\ PP_isDiscountActive(ds[i], t)
         THEN ds[i]
         ELSE PP_find(ds, i + 1, p, t)

\* The resolution taking the last match of the snapshot instead of the first.
PP_resolveLast(p, ds, t) ==
    IF p # Null /\ Len(ds) > 0
    THEN LET hits == {i \in 1..Len(ds) :
                         p.id \in ds[i].productIds /\ PP_isDiscountActive(ds[i], t)}
         IN  IF hits = {} THEN Null
             ELSE ds[CHOOSE i \in hits : \A j \in hits : j <= i]
    ELSE Null

\* The body of the active-discount effect: the value given to
\* setActiveDiscount, or the TypeError the effect throws.
PP_resolveActiveDiscount(p, ds, t) ==
    IF p # Null /\ Len(ds) > 0
    THEN PP_find(ds, 1, p, t)
    ELSE Null

\* createdAt?.toDate ? createdAt.toDate() : new Date(0)
AP_createdTime(d) ==
    IF d.createdAt.kind = "timestamp" THEN d.createdAt.ms ELSE 0

\* Insertion of d into a list sorted with the comparator bTime - aTime,
\* behind the elements that compare equal (Array.prototype.sort is stable).
RECURSIVE AP_insert(_, _)
AP_insert(sorted, d) ==
    IF sorted = <<>> THEN <<d>>
    ELSE IF AP_createdTime(Head(sorted)) >= AP_createdTime(d)
         THEN <<Head(sorted)>> \o AP_insert(Tail(sorted), d)
         ELSE <<d>> \o sorted

\* discountsData.sort(...): newest createdAt first.
RECURSIVE AP_sortDiscounts(_)
AP_sortDiscounts(ds) ==
    IF ds = <<>> THEN <<>>
    ELSE AP_insert(AP_sortDiscounts(SubSeq(ds, 1, Len(ds) - 1)), ds[Len(ds)])

\* The inventory's find over the admin's discounts.
RECURSIVE AP_find(_, _, _, _)
AP_find(ds, i, p, t) ==
    IF i > Len(ds) THEN Null
    ELSE IF p.id \in ds[i].productIds /\ AP_isDiscountActive(ds[i], t)
         THEN ds[i]
         ELSE AP_find(ds, i + 1, p, t)

\* The inventory card's activeDiscount for one product.
AP_inventoryActiveDiscount(p, ds, t) == AP_find(ds, 1, p, t)

---------------------------------------------------------------------------
(* Prices *)

\* The exact .5 ties of price * (100 - pct) / 100 that the double-precision
\* evaluation of price * (1 - pct / 100) puts below .5, so that Math.round
\* rounds them down (IEEE-754 binary64, prices 0..1100, whole percentages).
\* Every other tie evaluates to exactly .5 or above and rounds up.
FloatTieBelow(price, pct) ==
    \/ pct \in {34, 67, 78, 79, 81, 89, 90, 91, 93}
    \/ pct = 6 /\ price \in {1075}
    \/ pct = 7 /\ price \in {250, 550, 950, 1050}
    \/ pct = 30 /\ price \in {45, 85, 165, 175, 325, 335, 345, 355, 365, 645,
                              655, 665, 675, 685, 695, 705, 715, 725}
    \/ pct = 31 /\ price \in {150, 350, 550, 650}
    \/ pct = 33 /\ price \in {150, 250, 350, 450, 550, 650, 750, 850, 950, 1050}
    \/ pct = 54 /\ price \in {125, 225, 275, 425, 475, 525, 825, 875, 925, 975,
                              1025, 1075}
    \/ pct = 55 /\ price \in {30, 50, 70, 90, 110, 130, 170, 190, 210, 230, 250,
                              270, 330, 350, 370, 390, 410, 430, 450, 470, 490,
                              510, 530, 550, 650, 670, 690, 710, 730, 750, 770,
                              790, 810, 830, 850, 870, 890, 910, 930, 950, 970,
                              990, 1010, 1030, 1050, 1070, 1090}
    \/ pct = 65 /\ price \in {90, 170, 330, 350, 650, 670, 690, 710, 730}
    \/ pct = 66 /\ price \in {75, 125, 175, 275, 325, 375, 475, 525, 575, 625,
                              675, 725, 925, 975, 1025, 1075}
    \/ pct = 77 /\ price \in {250, 450, 550, 850, 950, 1050}

\* Math.round(price * (1 - pct / 100)) for an integer price >= 0 and a whole
\* percentage 0..100: the nearest integer of price * (100 - pct) / 100, a
\* tie decided by the floating-point value.
MathRoundDiscounted(price, pct) ==
    LET n == price * (100 - pct)
        q == n \div 100
        r == n % 100
    IN  IF r < 50 THEN q
        ELSE IF r > 50 THEN q + 1
        ELSE IF FloatTieBelow(price, pct) THEN q ELSE q + 1

\* getDiscountedPrice adding the percentage instead of taking it off.
getDiscountedPrice_markup(p, ad) ==
    IF ad = Null THEN p.price
    ELSE MathRoundDiscounted(p.price, 0 - ad.discountPercentage)

\* ProductPage.getDiscountedPrice, over the page's product and
\* activeDiscount. A percentage that is no number (the field is missing)
\* makes the product NaN, and Math.round(NaN) is NaN.
getDiscountedPrice(p, ad) ==
    IF ad = Null THEN p.price
    ELSE IF "discountPercentage" \notin DOMAIN ad THEN NaN
    ELSE MathRoundDiscounted(p.price, ad.discountPercentage)

\* ProductPage.getCurrentPrice.
getCurrentPrice(p, ad) ==
    IF ad # Null THEN getDiscountedPrice(p, ad) ELSE p.price

\* savings with the operands exchanged.
PP_savings_reversed(p, ad) == getDiscountedPrice(p, ad) - p.price

\* const savings = product.price - discountedPrice
PP_savings(p, ad) == p.price - getDiscountedPrice(p, ad)

\* The savings highlight: savings * quantity.
PP_savingsHighlight(p, ad, q) == PP_savings(p, ad) * q

\* The inventory card's discountedPrice (Null when no discount is active).
AP_inventoryDiscountedPrice(p, ad) ==
    IF ad # Null
    THEN MathRoundDiscounted(p.price, ad.discountPercentage)
    ELSE Null

\* The preview truncating instead of rounding.
AP_previewPrice_floor(p, d) == (p.price * (100 - d.discountPercentage)) \div 100

\* The discount list's price preview of one targeted product.
AP_previewPrice(p, d) == MathRoundDiscounted(p.price, d.discountPercentage)

---------------------------------------------------------------------------
(* Client storage *)

\* A selected label or an applied percentage, where null is possible too.
Str(s) == [str |-> s]
Num(n) == [num |-> n]

\* What getItem returns: null for a missing key, else the stored string,
\* which is the JSON text of a value or some other text.
Absent == [kind |-> "absent"]
\* The properties of a cart item that hold a selected label or an applied
\* percentage.
OptionalKeys == {"variation", "size", "discountApplied"}

\* What JSON.stringify keeps of an object: a property whose value is
\* undefined is left out, and NaN is written as null.
JSONobject(item) ==
    [k \in {key \in DOMAIN item :
                ~(key \in OptionalKeys /\ item[key] = Undefined)} |->
        IF k \in OptionalKeys /\ item[k] = NaN THEN Null ELSE item[k]]

\* What JSON.stringify keeps of an array of objects.
JSONarray(items) == [i \in 1..Len(items) |-> JSONobject(items[i])]

\* JSON.stringify of one item.
JSONstringifyItem(item) == [kind |-> "json", value |-> JSONobject(item)]

\* JSON.stringify of a cart: a text, non-empty also for the empty cart.
JSONstringify(value) == [kind |-> "json", value |-> JSONarray(value)]
OtherText(s) == [kind |-> "text", text |-> s]

\* A string is truthy unless it is empty; null is falsy.
Truthy(stored) ==
    /\ stored.kind # "absent"
    /\ ~(stored.kind = "text" /\ stored.text = "")

\* JSON.parse throws on text that is not JSON.
JSONparseThrows(stored) == stored.kind # "json"
JSONparse(stored) == stored.value

\* A store: the value under 'cartItems', and whether the store is disabled
\* or full so that getItem / setItem throw.
Store(cartItems, throws) == [cartItems |-> cartItems, throws |-> throws]

\* saveCartToStorage writing the session store alone.
saveCartToStorage_sessionOnly(cartData, ls, ss) ==
    LET cartJson == JSONstringify(cartData)
    IN  IF ss.throws THEN [local |-> ls, session |-> ss]
        ELSE [local |-> ls, session |-> [ss EXCEPT !.cartItems = cartJson]]

\* saveCartToStorage(cartData): the two stores after the call.
saveCartToStorage(cartData, ls, ss) ==
    LET cartJson == JSONstringify(cartData)
    IN  IF ls.throws THEN [local |-> ls, session |-> ss]
        ELSE IF ss.throws
             THEN [local |-> [ls EXCEPT !.cartItems = cartJson], session |-> ss]
             ELSE [local |-> [ls EXCEPT !.cartItems = cartJson],
                   session |-> [ss EXCEPT !.cartItems = cartJson]]

\* loadCartFromStorage(): the returned cart.
loadCartFromStorage(ls, ss) ==
    IF ls.throws THEN <<>>
    ELSE IF Truthy(ls.cartItems)
         THEN IF JSONparseThrows(ls.cartItems) THEN <<>> ELSE JSONparse(ls.cartItems)
         ELSE IF ss.throws THEN <<>>
              ELSE IF Truthy(ss.cartItems)
                   THEN IF JSONparseThrows(ss.cartItems) THEN <<>>
                        ELSE JSONparse(ss.cartItems)
                   ELSE <<>>

\* How a call ends: it returns a value, or it throws.
Return(v) == [completion |-> "return", value |-> v]
Throw == [completion |-> "throw"]

\* The try block of loadCartFromStorage: getItem of a failing store throws,
\* the session store is read only when the persistent one gave a falsy
\* value, and JSON.parse throws on text that is no JSON.
loadCartFromStorageTry(ls, ss) ==
    IF ls.throws THEN Throw
    ELSE IF Truthy(ls.cartItems)
         THEN IF JSONparseThrows(ls.cartItems) THEN Throw
              ELSE Return(JSONparse(ls.cartItems))
         ELSE IF ss.throws THEN Throw
              ELSE IF Truthy(ss.cartItems)
                   THEN IF JSONparseThrows(ss.cartItems) THEN Throw
                        ELSE Return(JSONparse(ss.cartItems))
                   ELSE Return(<<>>)

\* loadCartFromStorage without its catch clause.
loadCartFromStorageCompletion_uncaught(ls, ss) == loadCartFromStorageTry(ls, ss)

\* loadCartFromStorage as its caller sees it: the catch clause returns [].
loadCartFromStorageCompletion(ls, ss) ==
    LET body == loadCartFromStorageTry(ls, ss)
    IN  IF body.completion = "throw" THEN Return(<<>>) ELSE body

\* The try block of saveCartToStorage: the stores it leaves, and whether a
\* setItem threw.
saveCartToStorageTry(cartData, ls, ss) ==
    LET cartJson == JSONstringify(cartData)
    IN  IF ls.throws
        THEN [completion |-> "throw", local |-> ls, session |-> ss]
        ELSE IF ss.throws
             THEN [completion |-> "throw",
                   local |-> [ls EXCEPT !.cartItems = cartJson], session |-> ss]
             ELSE [completion |-> "return",
                   local |-> [ls EXCEPT !.cartItems = cartJson],
                   session |-> [ss EXCEPT !.cartItems = cartJson]]

\* saveCartToStorage as its caller sees it: the catch clause logs the error.
saveCartToStorageCompletion(cartData, ls, ss) ==
    [saveCartToStorageTry(cartData, ls, ss) EXCEPT !.completion = "return"]

---------------------------------------------------------------------------
(* Cart *)

\* The cartItem object with one less than the selected quantity.
NewCartItem_quantityBelow(p, ad, q, variation, size, t) ==
    [id |-> [productId |-> p.id,
             variationPart |-> IF variation # Null THEN variation.str ELSE "",
             sizePart |-> IF size # Null THEN size.str ELSE "",
             stamp |-> t],
     productId |-> p.id,
     title |-> p.title,
     price |-> getCurrentPrice(p, ad),
     originalPrice |-> p.price,
     image |-> p.coverImage,
     quantity |-> q - 1,
     variation |-> variation,
     size |-> size,
     discountApplied |->
         IF ad = Null THEN Null
         ELSE IF "discountPercentage" \notin DOMAIN ad THEN Undefined
         ELSE Num(ad.discountPercentage),
     createdAt |-> toISOString(t)]

\* The cartItem object handleAddToCart builds.
NewCartItem(p, ad, q, variation, size, t) ==
    [id |-> [productId |-> p.id,
             variationPart |-> IF variation # Null THEN variation.str ELSE "",
             sizePart |-> IF size # Null THEN size.str ELSE "",
             stamp |-> t],
     productId |-> p.id,
     title |-> p.title,
     price |-> getCurrentPrice(p, ad),
     originalPrice |-> p.price,
     image |-> p.coverImage,
     quantity |-> q,
     variation |-> variation,
     size |-> size,
     discountApplied |->
         IF ad = Null THEN Null
         ELSE IF "discountPercentage" \notin DOMAIN ad THEN Undefined
         ELSE Num(ad.discountPercentage),
     createdAt |-> toISOString(t)]

\* The buyNowItem object without the selected variation.
NewBuyNowItem_noVariation(p, ad, q, variation, size, t) ==
    [NewCartItem(p, ad, q, variation, size, t) EXCEPT !.id = p.id, !.variation = Null]

\* The buyNowItem object handleBuyNow builds: the shape of a cart item, its
\* id the product's id.
NewBuyNowItem(p, ad, q, variation, size, t) ==
    [NewCartItem(p, ad, q, variation, size, t) EXCEPT !.id = p.id]

\* findIndex matching on the product and the variation, not on the size.
RECURSIVE findIndex_ignoreSize(_, _, _)
findIndex_ignoreSize(cart, i, cartItem) ==
    IF i > Len(cart) THEN 0
    ELSE IF /\ cart[i].productId = cartItem.productId
            /\ cart[i].variation = cartItem.variation
         THEN i
         ELSE findIndex_ignoreSize(cart, i + 1, cartItem)

\* findIndex matching on the product alone.
RECURSIVE findIndex_productOnly(_, _, _)
findIndex_productOnly(cart, i, cartItem) ==
    IF i > Len(cart) THEN 0
    ELSE IF cart[i].productId = cartItem.productId
         THEN i
         ELSE findIndex_productOnly(cart, i + 1, cartItem)

\* currentCart.findIndex(...): the first index whose productId, variation
\* and size equal the item's; 0 stands for -1.
RECURSIVE findIndex(_, _, _)
findIndex(cart, i, cartItem) ==
    IF i > Len(cart) THEN 0
    ELSE IF /\ cart[i].productId = cartItem.productId
            /\ cart[i].variation = cartItem.variation
            /\ cart[i].size = cartItem.size
         THEN i
         ELSE findIndex(cart, i + 1, cartItem)

\* The merge replacing the found entry by the new item with the summed
\* quantity.
mergeIntoCart_replace(currentCart, cartItem, q) ==
    LET existingIndex == findIndex(currentCart, 1, cartItem)
    IN  IF existingIndex # 0
        THEN [currentCart EXCEPT
                 ![existingIndex] =
                     [cartItem EXCEPT !.quantity = currentCart[existingIndex].quantity + q]]
        ELSE Append(currentCart, cartItem)

\* The merge-or-append starting a new cart when no entry matches.
mergeIntoCart_restart(currentCart, cartItem, q) ==
    LET existingIndex == findIndex(currentCart, 1, cartItem)
    IN  IF existingIndex # 0
        THEN [currentCart EXCEPT ![existingIndex].quantity = @ + q]
        ELSE <<cartItem>>

\* The merge-or-append of handleAddToCart: currentCart after the if/else.
mergeIntoCart(currentCart, cartItem, q) ==
    LET existingIndex == findIndex(currentCart, 1, cartItem)
    IN  IF existingIndex # 0
        THEN [currentCart EXCEPT ![existingIndex].quantity = @ + q]
        ELSE Append(currentCart, cartItem)

RECURSIVE TotalQuantity(_)
TotalQuantity(cart) ==
    IF cart = <<>> THEN 0 ELSE Head(cart).quantity + TotalQuantity(Tail(cart))

---------------------------------------------------------------------------
(* Form values of AdminPortal *)

\* A JavaScript number with a fraction: units + hundredths / 100.
Decimal(units, hundredths) == [units |-> units, hundredths |-> hundredths]

\* The texts of whole numbers a form field holds in the model.
IsIntegerText(s) == s \in {"0", "1", "50", "100", "101", "-5"}

TextToInt(s) ==
    CASE s = "0"   -> 0
      [] s = "1"   -> 1
      [] s = "50"  -> 50
      [] s = "100" -> 100
      [] s = "101" -> 101
      [] s = "-5"  -> 0 - 5

\* parseFloat(text): NaN for the empty text and for text that starts with
\* no number.
parseFloat(s) ==
    IF IsIntegerText(s) THEN Num(TextToInt(s))
    ELSE IF s = "12.5" THEN Decimal(12, 50)
    ELSE NaN

\* The number a text is converted to by a comparison with a number: 0 for
\* the empty text, NaN for text that is no number.
ToNumber(s) == IF s = "" THEN Num(0) ELSE parseFloat(s)

\* text <= n and text > n for a whole n >= 0; false when the text
\* converts to NaN.
TextLE(s, n) ==
    LET v == ToNumber(s)
    IN  IF "num" \in DOMAIN v THEN v.num <= n
        ELSE IF "units" \in DOMAIN v THEN v.units < n
        ELSE FALSE

TextGT(s, n) ==
    LET v == ToNumber(s)
    IN  IF "num" \in DOMAIN v THEN v.num > n
        ELSE IF "units" \in DOMAIN v THEN v.units >= n
        ELSE FALSE

\* The texts of discountSuccessMsg and successMsg (without their leading
\* mark).
MsgSelectProduct == "Please select at least one product."
MsgPercentage == "Please enter a valid discount percentage (1-100)."
MsgEndAfterStart == "End date must be after start date."
MsgDiscountCreated == "Discount created successfully!"
MsgDiscountFailed == "Failed to create discount."
MsgProductUpdated == "Product updated successfully!"
MsgProductAdded == "Product added successfully!"
MsgSubmitFailed == "Failed to submit."

\* The contents of discountFormData at a submit.
DiscountForms ==
    [productIds : {{}, {"p1"}},
     discountPercentage : {"", "0", "50", "101", "abc"},
     startDate : {"", toISOString(1), toISOString(2)},
     endDate : {"", toISOString(1), toISOString(2)}]

\* The contents of formData at a submit: the price, and the title.
ProductForms ==
    [title : {"Rose"}, price : {"0", "100", "-5", "12.5", "abc"}]

---------------------------------------------------------------------------
(* Discount documents of the model *)

DiscountDoc(id, productIds, pct, startDate, endDate, isActive, createdAt) ==
    [id |-> id, productIds |-> productIds, discountPercentage |-> pct,
     startDate |-> startDate, endDate |-> endDate, isActive |-> isActive,
     createdAt |-> createdAt]

DiscountIds == <<"d1", "d2", "d3">>

\* What the store keeps of a Date given to addDoc: a timestamp, or for
\* Invalid Date a value that denotes no instant.
DateField(d) == IF d.valid THEN Timestamp(d.ms) ELSE StringValue("Invalid Date")

\* The document handleDiscountSubmit gives to addDoc, under the id the
\* store assigns. A percentage of NaN is a document with no number under
\* discountPercentage.
NewDiscountDoc(id, form, t) ==
    LET pct == parseFloat(form.discountPercentage)
        written == DiscountDoc(id, form.productIds,
                               IF "num" \in DOMAIN pct THEN pct.num ELSE 0,
                               DateField(DateParse(form.startDate)),
                               DateField(DateParse(form.endDate)),
                               TRUE, Timestamp(t))
    IN  IF "num" \in DOMAIN pct THEN written
        ELSE WithoutField(written, "discountPercentage")

\* The sequence s with x put at position i.
InsertAt(s, i, x) == SubSeq(s, 1, i - 1) \o <<x>> \o SubSeq(s, i, Len(s))

\* The sequence s without the documents of id `id`.
WithoutId(s, id) == SelectSeq(s, LAMBDA d : d.id # id)

\* The time windows of the documents: store timestamps, or ISO strings.
Windows ==
    { [startDate |-> Timestamp(1), endDate |-> Timestamp(MaxTime - 1)],
      [startDate |-> StringValue(toISOString(2)),
       endDate |-> StringValue(toISOString(2))] }

\* The documents that may stand at position i of a snapshot: document i
\* takes 10 * i percent off.
DocsAt(i) ==
    { DiscountDoc(DiscountIds[i], pids, 10 * i, w.startDate, w.endDate, a, c) :
        pids \in {{"p1"}, {"p1", "p2"}}, w \in Windows, a \in BOOLEAN,
        c \in {Timestamp(1), Timestamp(2)} }

Snapshots ==
    UNION { { s \in [1..n -> UNION {DocsAt(i) : i \in 1..n}] :
                \A i \in 1..n : s[i] \in DocsAt(i) } : n \in 0..MaxSnapshot }

\* Every form of start and end value: timestamps and ISO strings of every
\* instant, and a string that is no date.
DateValues ==
    {Timestamp(t) : t \in 0..MaxTime}
        \cup {StringValue(toISOString(t)) : t \in 0..MaxTime}
        \cup {StringValue("next week")}

SingleDocSnapshots ==
    { <<DiscountDoc("d1", {"p1"}, 10, sd, ed, a, Timestamp(0))>> :
        sd \in DateValues, ed \in DateValues, a \in BOOLEAN }

\* The documents that may stand at position i of a snapshot with malformed
\* documents: a well-formed discount on p1, and the same without
\* productIds, without a percentage, or with a start or an end that is no
\* date.
MalformedDocsAt(i) ==
    LET good == DiscountDoc(DiscountIds[i], {"p1"}, 10 * i, Timestamp(1),
                            Timestamp(MaxTime - 1), TRUE, Timestamp(i))
    IN  { good,
          WithoutField(good, "productIds"),
          WithoutField(good, "discountPercentage"),
          [good EXCEPT !.startDate = StringValue("next week")],
          [good EXCEPT !.endDate = StringValue("never")] }

MalformedSnapshots ==
    UNION { { s \in [1..n -> UNION {MalformedDocsAt(i) : i \in 1..n}] :
                \A i \in 1..n : s[i] \in MalformedDocsAt(i) } : n \in 1..MaxSnapshot }

\* A collection with one discount on p1 whose window opens and closes
\* within the time of the model.
StaleDocs ==
    << DiscountDoc("d1", {"p1"}, 10, Timestamp(1), Timestamp(MaxTime - 2), TRUE,
                   Timestamp(0)) >>

\* The collection of the route specification: a discount on p1 and a
\* discount on both products behind it, open at all times of the model.
RouteDocs ==
    << DiscountDoc("d1", {"p1"}, 10, Timestamp(0), Timestamp(MaxTime), TRUE,
                   Timestamp(0)),
       DiscountDoc("d2", {"p1", "p2"}, 20, Timestamp(0), Timestamp(MaxTime), TRUE,
                   Timestamp(0)) >>

\* The collection of the cart specification: a discount on each product,
\* open at all times of the model.
CartDocs ==
    << DiscountDoc("d1", {"p1"}, 10, Timestamp(0), Timestamp(MaxTime), TRUE,
                   Timestamp(0)),
       DiscountDoc("d2", {"p2"}, 20, Timestamp(0), Timestamp(MaxTime), TRUE,
                   Timestamp(0)) >>

---------------------------------------------------------------------------
(* Actions *)

\* Wall-clock time passes, up to a last instant of the model.
TickUntil(last) ==
    /\ now < last
    /\ now' = now + 1
    /\ UNCHANGED <<discountDocs, pageVars, adminDiscounts, storageVars,
                   buyVars, pageError, adminFormVars, routeVars, adminAsyncVars, tabs>>

Tick == TickUntil(MaxTime)

CartTick == TickUntil(MaxCartTime)

\* The effect resolving over the snapshot the page held before.
runActiveDiscountEffect_previousSnapshot(p, ds) ==
    LET currentActiveDiscount == PP_resolveActiveDiscount(p, discounts, now)
    IN  IF currentActiveDiscount = TypeError
        THEN /\ pageError' = TRUE
             /\ UNCHANGED activeDiscount
        ELSE /\ activeDiscount' = currentActiveDiscount
             /\ UNCHANGED pageError

\* ProductPage: the active-discount effect after a render with the product
\* p and the discounts ds. An error it throws is caught by nothing: the
\* page is taken down with activeDiscount as it was.
runActiveDiscountEffect(p, ds) ==
    LET currentActiveDiscount == PP_resolveActiveDiscount(p, ds, now)
    IN  IF currentActiveDiscount = TypeError
        THEN /\ pageError' = TRUE
             /\ UNCHANGED activeDiscount
        ELSE /\ activeDiscount' = currentActiveDiscount
             /\ UNCHANGED pageError

\* ProductPage: the onSnapshot callback delivers the collection, and the
\* active-discount effect runs on the changed discounts.
PP_onDiscountsSnapshot ==
    /\ ~pageError
    /\ discounts' = discountDocs
    /\ runActiveDiscountEffect(product, discounts')
    /\ UNCHANGED <<now, discountDocs, product, quantity, selectedVariation,
                   selectedSize, showSuccess, loading, adminDiscounts, storageVars,
                   buyVars, adminFormVars, routeVars, adminAsyncVars, tabs>>

\* ProductPage: fetchProduct has found the document productData. The
\* product is set, the first variation and the first size are selected when
\* the product has any, and the active-discount effect runs on the changed
\* product.
setProductData(productData) ==
    /\ product' = productData
    /\ selectedVariation' =
          IF Len(productData.variations) > 0
          THEN Str(productData.variations[1])
          ELSE selectedVariation
    /\ selectedSize' =
          IF Len(productData.sizes) > 0
          THEN Str(productData.sizes[1])
          ELSE selectedSize
    /\ runActiveDiscountEffect(product', discounts)

\* ProductPage: the route id is (or becomes) `id` and fetchProduct finds
\* the document before any other event.
fetchProduct(id) ==
    /\ ~pageError
    /\ setProductData(ProductDoc(id))
    /\ location' = ProductRoute(id)
    /\ UNCHANGED <<now, discountDocs, discounts, quantity, showSuccess, loading,
                   adminDiscounts, storageVars, buyVars, adminFormVars,
                   pendingFetches, adminAsyncVars, tabs>>

\* The state of a page instance that has been taken down: the next mount
\* starts from the useState defaults, and the fetches in flight are the
\* old instance's.
pageUnmounts(fetches) ==
    /\ product' = Null
    /\ discounts' = <<>>
    /\ activeDiscount' = Null
    /\ quantity' = 1
    /\ selectedVariation' = Null
    /\ selectedSize' = Null
    /\ showSuccess' = FALSE
    /\ loading' = FALSE
    /\ pendingFetches' = Orphaned(fetches)

\* The router: the shopper goes to the product route of `id`, from another
\* route (the page mounts) or from the product route of another id (the
\* page instance stays, with its state). The effect on [id, navigate] calls
\* fetchProduct, which awaits getDoc.
navigateToProduct(id) ==
    /\ ~pageError
    /\ location # ProductRoute(id)
    /\ Len(pendingFetches) < MaxPendingFetches
    /\ location' = ProductRoute(id)
    /\ pendingFetches' = Append(pendingFetches, Fetch(id))
    /\ UNCHANGED <<now, discountDocs, pageVars, adminDiscounts, storageVars,
                   buyVars, pageError, adminFormVars, adminAsyncVars, tabs>>

\* fetchProduct doing nothing for a document that does not exist.
fetchProductSettles_noRedirect(i, rejected) ==
    LET f == pendingFetches[i]
        rest == RemoveAt(pendingFetches, i)
    IN  /\ ~pageError
        /\ IF rejected \/ ~DocExists(f.id) \/ ~f.live
           THEN /\ pendingFetches' = rest
                /\ UNCHANGED <<pageVars, location, pageError>>
           ELSE /\ setProductData(ProductDoc(f.id))
                /\ pendingFetches' = rest
                /\ UNCHANGED <<discounts, quantity, showSuccess, loading, location>>
        /\ UNCHANGED <<now, discountDocs, adminDiscounts, storageVars, buyVars,
                       adminFormVars, adminAsyncVars, tabs>>

\* ProductPage: the getDoc of the fetch at position i settles, in any
\* order with the other fetches. A rejection is caught and logged. A
\* document that exists is given to the page that started the fetch, if it
\* is still mounted. For a document that does not exist fetchProduct calls
\* navigate('/'), which takes a mounted product page down.
fetchProductSettles(i, rejected) ==
    LET f == pendingFetches[i]
        rest == RemoveAt(pendingFetches, i)
    IN  /\ ~pageError
        /\ IF rejected
           THEN /\ pendingFetches' = rest
                /\ UNCHANGED <<pageVars, location, pageError>>
           ELSE IF DocExists(f.id)
           THEN IF f.live
                THEN /\ setProductData(ProductDoc(f.id))
                     /\ pendingFetches' = rest
                     /\ UNCHANGED <<discounts, quantity, showSuccess, loading, location>>
                ELSE /\ pendingFetches' = rest
                     /\ UNCHANGED <<pageVars, location, pageError>>
           ELSE /\ location' = HomeRoute
                /\ pageUnmounts(rest)
                /\ UNCHANGED pageError
        /\ UNCHANGED <<now, discountDocs, adminDiscounts, storageVars, buyVars,
                       adminFormVars, adminAsyncVars, tabs>>

\* ProductPage: a click on a color button.
setSelectedVariation(v) ==
    /\ ~pageError
    /\ product # Null
    /\ \E i \in 1..Len(product.variations) : product.variations[i] = v
    /\ selectedVariation' = Str(v)
    /\ UNCHANGED <<now, discountDocs, product, discounts, activeDiscount, quantity,
                   selectedSize, showSuccess, loading, adminDiscounts, storageVars,
                   buyVars, pageError, adminFormVars, routeVars, adminAsyncVars, tabs>>

\* ProductPage: a click on a size button.
setSelectedSize(z) ==
    /\ ~pageError
    /\ product # Null
    /\ \E i \in 1..Len(product.sizes) : product.sizes[i] = z
    /\ selectedSize' = Str(z)
    /\ UNCHANGED <<now, discountDocs, product, discounts, activeDiscount, quantity,
                   selectedVariation, showSuccess, loading, adminDiscounts, storageVars,
                   buyVars, pageError, adminFormVars, routeVars, adminAsyncVars, tabs>>

\* ProductPage: the QuantitySelector sets the quantity.
setQuantity(q) ==
    /\ ~pageError
    /\ product # Null
    /\ quantity' = q
    /\ UNCHANGED <<now, discountDocs, product, discounts, activeDiscount,
                   selectedVariation, selectedSize, showSuccess, loading, adminDiscounts,
                   storageVars,
                   buyVars, pageError, adminFormVars, routeVars, adminAsyncVars, tabs>>

\* handleAddToCart without the test of product.available.
handleAddToCart_unguarded ==
    /\ ~pageError
    /\ product # Null
    /\ ~loading
    /\ LET cartItem == NewCartItem(product, activeDiscount, quantity,
                                   selectedVariation, selectedSize, now)
           currentCart == loadCartFromStorage(localStorage, sessionStorage)
           saved == saveCartToStorage(mergeIntoCart(currentCart, cartItem, quantity),
                                      localStorage, sessionStorage)
       IN  /\ TotalQuantity(currentCart) + quantity <= MaxCartQuantity
           /\ localStorage' = saved.local
           /\ sessionStorage' = saved.session
    /\ showSuccess' = TRUE
    /\ loading' = FALSE
    /\ UNCHANGED <<now, discountDocs, product, discounts, activeDiscount, quantity,
                   selectedVariation, selectedSize, adminDiscounts,
                   buyVars, pageError, adminFormVars, routeVars, adminAsyncVars, tabs>>

\* ProductPage.handleAddToCart: the guard, the item, the load, the merge,
\* the save and the success banner. The function holds no await, so it runs
\* to its end within the click: loading, set at its start, is false again
\* (the finally clause) when the click is done.
handleAddToCart ==
    /\ ~pageError
    /\ product # Null
    /\ ~loading
    /\ product.available
    /\ LET cartItem == NewCartItem(product, activeDiscount, quantity,
                                   selectedVariation, selectedSize, now)
           currentCart == loadCartFromStorage(localStorage, sessionStorage)
           saved == saveCartToStorage(mergeIntoCart(currentCart, cartItem, quantity),
                                      localStorage, sessionStorage)
       IN  /\ TotalQuantity(currentCart) + quantity <= MaxCartQuantity
           /\ localStorage' = saved.local
           /\ sessionStorage' = saved.session
    /\ showSuccess' = TRUE
    /\ loading' = FALSE
    /\ UNCHANGED <<now, discountDocs, product, discounts, activeDiscount, quantity,
                   selectedVariation, selectedSize, adminDiscounts,
                   buyVars, pageError, adminFormVars, routeVars, adminAsyncVars, tabs>>

\* ProductPage.handleBuyNow: the item is written under 'buyNowItem' of the
\* session store and the shopper is sent to /buynowcheckout, which takes the
\* product page down (it mounts anew on the next visit); when setItem
\* throws, an alert is raised and the page stays.
handleBuyNow ==
    /\ ~pageError
    /\ product # Null
    /\ ~loading
    /\ product.available
    /\ LET item == NewBuyNowItem(product, activeDiscount, quantity,
                                 selectedVariation, selectedSize, now)
       IN  IF sessionStorage.throws
           THEN /\ alerts < MaxAlerts
                /\ alerts' = alerts + 1
                /\ UNCHANGED <<buyNowItem, pageVars, routeVars>>
           ELSE /\ buyNowItem' = JSONstringifyItem(item)
                /\ location' = BuyNowCheckoutRoute
                /\ pageUnmounts(pendingFetches)
                /\ UNCHANGED alerts
    /\ UNCHANGED <<now, discountDocs, adminDiscounts, storageVars, pageError,
                   adminFormVars, adminAsyncVars, tabs>>

\* ProductPage: the 2500 ms timer of the success banner fires.
hideSuccess ==
    /\ ~pageError
    /\ showSuccess
    /\ showSuccess' = FALSE
    /\ UNCHANGED <<now, discountDocs, product, discounts, activeDiscount, quantity,
                   selectedVariation, selectedSize, loading, adminDiscounts, storageVars,
                   buyVars, pageError, adminFormVars, routeVars, adminAsyncVars, tabs>>

\* AdminPortal: the onSnapshot callback sorts the collection by createdAt.
AP_onDiscountsSnapshot ==
    /\ adminDiscounts' = AP_sortDiscounts(discountDocs)
    /\ UNCHANGED <<now, discountDocs, pageVars, storageVars,
                   buyVars, pageError, adminFormVars, routeVars, adminAsyncVars, tabs>>

\* A call of saveCartToStorage with the cart cartData.
SaveCartCall(cartData) ==
    /\ LET saved == saveCartToStorage(cartData, localStorage, sessionStorage)
       IN  /\ localStorage' = saved.local
           /\ sessionStorage' = saved.session
    /\ UNCHANGED <<now, discountDocs, pageVars, adminDiscounts,
                   buyVars, pageError, adminFormVars, routeVars, adminAsyncVars, tabs>>

\* AdminPortal.handleDiscountSubmit on the form contents `form`; the store
\* takes the write (accepted) or rejects it, and it answers before any
\* other event, so that discountLoading is false again at the end.
handleDiscountSubmit(form, accepted) ==
    /\ IF form.productIds = {}
       THEN /\ discountSuccessMsg' = MsgSelectProduct
            /\ UNCHANGED <<discountDocs, adminConsole>>
       ELSE IF \/ form.discountPercentage = ""
               \/ TextLE(form.discountPercentage, 0)
               \/ TextGT(form.discountPercentage, 100)
       THEN /\ discountSuccessMsg' = MsgPercentage
            /\ UNCHANGED <<discountDocs, adminConsole>>
       ELSE IF DateGE(DateParse(form.startDate), DateParse(form.endDate))
       THEN /\ discountSuccessMsg' = MsgEndAfterStart
            /\ UNCHANGED <<discountDocs, adminConsole>>
       ELSE IF accepted
       THEN /\ Len(discountDocs) < MaxDiscountDocs
            /\ \E n \in 1..Len(DiscountIds), i \in 1..(Len(discountDocs) + 1) :
                  /\ \A j \in 1..Len(discountDocs) : discountDocs[j].id # DiscountIds[n]
                  /\ \A m \in 1..(n - 1) :
                        \E j \in 1..Len(discountDocs) : discountDocs[j].id = DiscountIds[m]
                  /\ discountDocs' =
                        InsertAt(discountDocs, i, NewDiscountDoc(DiscountIds[n], form, now))
            /\ discountSuccessMsg' = MsgDiscountCreated
            /\ UNCHANGED adminConsole
       ELSE /\ adminConsole < MaxConsoleErrors
            /\ adminConsole' = adminConsole + 1
            /\ discountSuccessMsg' = MsgDiscountFailed
            /\ UNCHANGED discountDocs
    /\ discountLoading' = FALSE
    /\ UNCHANGED <<now, pageVars, adminDiscounts, storageVars, buyVars, pageError,
                   successMsg, productWrites, routeVars, AP_loading,
                   pendingDiscountWrite, pendingProductWrite, tabs>>

\* AdminPortal.deleteDiscount of a listed discount, the confirm dialog
\* answered with OK.
deleteDiscount(discountId, accepted) ==
    /\ \E i \in 1..Len(adminDiscounts) : adminDiscounts[i].id = discountId
    /\ IF accepted
       THEN /\ discountDocs' = WithoutId(discountDocs, discountId)
            /\ UNCHANGED adminConsole
       ELSE /\ adminConsole < MaxConsoleErrors
            /\ adminConsole' = adminConsole + 1
            /\ UNCHANGED discountDocs
    /\ UNCHANGED <<now, pageVars, adminDiscounts, storageVars, buyVars, pageError,
                   discountSuccessMsg, successMsg, productWrites, routeVars,
                   adminAsyncVars, tabs>>

\* AdminPortal.toggleDiscountStatus of a listed discount, with the status
\* the list shows; the store takes the update only of a document it holds.
toggleDiscountStatus(discountId, accepted) ==
    /\ \E i \in 1..Len(adminDiscounts) :
          /\ adminDiscounts[i].id = discountId
          /\ LET currentStatus == adminDiscounts[i].isActive
             IN  IF accepted
                 THEN /\ \E j \in 1..Len(discountDocs) :
                            /\ discountDocs[j].id = discountId
                            /\ discountDocs' =
                                  [discountDocs EXCEPT ![j].isActive = ~currentStatus]
                      /\ UNCHANGED adminConsole
                 ELSE /\ adminConsole < MaxConsoleErrors
                      /\ adminConsole' = adminConsole + 1
                      /\ UNCHANGED discountDocs
    /\ UNCHANGED <<now, pageVars, adminDiscounts, storageVars, buyVars, pageError,
                   discountSuccessMsg, successMsg, productWrites, routeVars,
                   adminAsyncVars, tabs>>

\* AdminPortal.handleSubmit on the form contents `form`, editing the
\* product editId or, with editId null, adding a product; the store answers
\* before any other event, so that loading is false again at the end.
handleSubmit(form, editId, accepted) ==
    /\ IF accepted
       THEN /\ Len(productWrites) < MaxProductWrites
            /\ productWrites' =
                  Append(productWrites,
                         [op |-> IF editId # Null THEN "updateDoc" ELSE "addDoc",
                          id |-> editId,
                          title |-> form.title,
                          price |-> parseFloat(form.price)])
            /\ successMsg' = IF editId # Null THEN MsgProductUpdated ELSE MsgProductAdded
            /\ UNCHANGED adminConsole
       ELSE /\ adminConsole < MaxConsoleErrors
            /\ adminConsole' = adminConsole + 1
            /\ successMsg' = MsgSubmitFailed
            /\ UNCHANGED productWrites
    /\ AP_loading' = FALSE
    /\ UNCHANGED <<now, discountDocs, pageVars, adminDiscounts, storageVars, buyVars,
                   pageError, discountSuccessMsg, routeVars, discountLoading,
                   pendingDiscountWrite, pendingProductWrite, tabs>>

\* AdminPortal.handleDiscountSubmit up to its await. The submit button is
\* disabled while discountLoading is true, so no second submit starts
\* before the first has ended. A form that fails a validation ends the
\* handler at once, with discountLoading set back to false before the
\* return; any other form is handed to addDoc and the handler waits for
\* the answer with discountLoading true.
handleDiscountSubmitStart(form) ==
    /\ ~discountLoading
    /\ Len(discountDocs) < MaxDiscountDocs
    /\ IF form.productIds = {}
       THEN /\ discountSuccessMsg' = MsgSelectProduct
            /\ discountLoading' = FALSE
            /\ UNCHANGED pendingDiscountWrite
       ELSE IF \/ form.discountPercentage = ""
               \/ TextLE(form.discountPercentage, 0)
               \/ TextGT(form.discountPercentage, 100)
       THEN /\ discountSuccessMsg' = MsgPercentage
            /\ discountLoading' = FALSE
            /\ UNCHANGED pendingDiscountWrite
       ELSE IF DateGE(DateParse(form.startDate), DateParse(form.endDate))
       THEN /\ discountSuccessMsg' = MsgEndAfterStart
            /\ discountLoading' = FALSE
            /\ UNCHANGED pendingDiscountWrite
       ELSE /\ discountSuccessMsg' = ""
            /\ discountLoading' = TRUE
            /\ pendingDiscountWrite' = [form |-> form]
    /\ UNCHANGED <<now, discountDocs, pageVars, adminDiscounts, storageVars, buyVars,
                   pageError, successMsg, productWrites, adminConsole, routeVars,
                   AP_loading, pendingProductWrite, tabs>>

\* The rest of a handler that sets discountLoading back to false only
\* after a write the store took.
handleDiscountSubmitSettles_resetOnSuccess(accepted) ==
    /\ pendingDiscountWrite # Null
    /\ IF accepted
       THEN /\ \E n \in 1..Len(DiscountIds), i \in 1..(Len(discountDocs) + 1) :
                  /\ \A j \in 1..Len(discountDocs) : discountDocs[j].id # DiscountIds[n]
                  /\ \A k \in 1..(n - 1) :
                        \E j \in 1..Len(discountDocs) : discountDocs[j].id = DiscountIds[k]
                  /\ discountDocs' =
                        InsertAt(discountDocs, i,
                                 NewDiscountDoc(DiscountIds[n],
                                                pendingDiscountWrite.form, now))
            /\ discountSuccessMsg' = MsgDiscountCreated
            /\ discountLoading' = FALSE
            /\ UNCHANGED adminConsole
       ELSE /\ adminConsole < MaxConsoleErrors
            /\ adminConsole' = adminConsole + 1
            /\ discountSuccessMsg' = MsgDiscountFailed
            /\ UNCHANGED <<discountDocs, discountLoading>>
    /\ pendingDiscountWrite' = Null
    /\ UNCHANGED <<now, pageVars, adminDiscounts, storageVars, buyVars, pageError,
                   successMsg, productWrites, routeVars, AP_loading,
                   pendingProductWrite, tabs>>

\* AdminPortal.handleDiscountSubmit from the answer of addDoc on: the
\* store took the write (accepted: success message) or rejected it (catch:
\* console.error and failure message); after either, discountLoading is
\* set back to false.
handleDiscountSubmitSettles(accepted) ==
    /\ pendingDiscountWrite # Null
    /\ IF accepted
       THEN /\ \E n \in 1..Len(DiscountIds), i \in 1..(Len(discountDocs) + 1) :
                  /\ \A j \in 1..Len(discountDocs) : discountDocs[j].id # DiscountIds[n]
                  /\ \A k \in 1..(n - 1) :
                        \E j \in 1..Len(discountDocs) : discountDocs[j].id = DiscountIds[k]
                  /\ discountDocs' =
                        InsertAt(discountDocs, i,
                                 NewDiscountDoc(DiscountIds[n],
                                                pendingDiscountWrite.form, now))
            /\ discountSuccessMsg' = MsgDiscountCreated
            /\ UNCHANGED adminConsole
       ELSE /\ adminConsole < MaxConsoleErrors
            /\ adminConsole' = adminConsole + 1
            /\ discountSuccessMsg' = MsgDiscountFailed
            /\ UNCHANGED discountDocs
    /\ discountLoading' = FALSE
    /\ pendingDiscountWrite' = Null
    /\ UNCHANGED <<now, pageVars, adminDiscounts, storageVars, buyVars, pageError,
                   successMsg, productWrites, routeVars, AP_loading,
                   pendingProductWrite, tabs>>

\* AdminPortal.handleSubmit up to its await: loading is set, the message
\* cleared, and the form handed to updateDoc (editId set) or addDoc. The
\* submit button is disabled while loading is true.
handleSubmitStart(form, editId) ==
    /\ ~AP_loading
    /\ Len(productWrites) < MaxProductWrites
    /\ AP_loading' = TRUE
    /\ successMsg' = ""
    /\ pendingProductWrite' = [form |-> form, editId |-> editId]
    /\ UNCHANGED <<now, discountDocs, pageVars, adminDiscounts, storageVars, buyVars,
                   pageError, discountSuccessMsg, productWrites, adminConsole,
                   routeVars, discountLoading, pendingDiscountWrite, tabs>>

\* AdminPortal.handleSubmit from the answer of the store on: success
\* message, or console.error and failure message in the catch; after
\* either, loading is set back to false.
handleSubmitSettles(accepted) ==
    /\ pendingProductWrite # Null
    /\ LET form == pendingProductWrite.form
           editId == pendingProductWrite.editId
       IN  IF accepted
           THEN /\ productWrites' =
                      Append(productWrites,
                             [op |-> IF editId # Null THEN "updateDoc" ELSE "addDoc",
                              id |-> editId,
                              title |-> form.title,
                              price |-> parseFloat(form.price)])
                /\ successMsg' =
                      IF editId # Null THEN MsgProductUpdated ELSE MsgProductAdded
                /\ UNCHANGED adminConsole
           ELSE /\ adminConsole < MaxConsoleErrors
                /\ adminConsole' = adminConsole + 1
                /\ successMsg' = MsgSubmitFailed
                /\ UNCHANGED productWrites
    /\ AP_loading' = FALSE
    /\ pendingProductWrite' = Null
    /\ UNCHANGED <<now, discountDocs, pageVars, adminDiscounts, storageVars, buyVars,
                   pageError, discountSuccessMsg, routeVars, discountLoading,
                   pendingDiscountWrite, tabs>>

\* AdminPortal.handleDelete of a product, the confirm dialog answered with
\* OK.
handleDelete(id, accepted) ==
    /\ IF accepted
       THEN /\ Len(productWrites) < MaxProductWrites
            /\ productWrites' =
                  Append(productWrites,
                         [op |-> "deleteDoc", id |-> Str(id), title |-> "", price |-> Null])
            /\ UNCHANGED adminConsole
       ELSE /\ adminConsole < MaxConsoleErrors
            /\ adminConsole' = adminConsole + 1
            /\ UNCHANGED productWrites
    /\ UNCHANGED <<now, discountDocs, pageVars, adminDiscounts, storageVars, buyVars,
                   pageError, discountSuccessMsg, successMsg, routeVars,
                   adminAsyncVars, tabs>>

\* The product page of one of several tabs, after its product has been
\* fetched: the page's state, the tab's own sessionStorage, where its
\* handleAddToCart stands, and how many adds it has completed.
Idle == [running |-> FALSE]
Running(cartItem, currentCart) ==
    [running |-> TRUE, cartItem |-> cartItem, currentCart |-> currentCart]

TabPage(p, variation, size) ==
    [product |-> p, activeDiscount |-> Null, quantity |-> 1,
     selectedVariation |-> variation, selectedSize |-> size,
     sessionStorage |-> Store(Absent, FALSE),
     handler |-> Idle, added |-> 0]

\* Tab t, handleAddToCart up to the load: the guard, the cartItem and
\* loadCartFromStorage, which reads the localStorage all tabs share (and
\* the tab's own sessionStorage when that holds nothing). No lock spans the
\* handler's read and its write, so other tabs' steps come between them.
TabLoadCart(t) ==
    LET tab == tabs[t]
        cartItem == NewCartItem(tab.product, tab.activeDiscount, tab.quantity,
                                tab.selectedVariation, tab.selectedSize, now)
        currentCart == loadCartFromStorage(localStorage, tab.sessionStorage)
    IN  /\ ~tab.handler.running
        /\ tab.product.available
        /\ tab.added < MaxTabAdds
        /\ TotalQuantity(currentCart) + tab.quantity <= MaxCartQuantity
        /\ tabs' = [tabs EXCEPT ![t].handler = Running(cartItem, currentCart)]
        /\ UNCHANGED <<now, discountDocs, pageVars, adminDiscounts, storageVars,
                       buyVars, pageError, adminFormVars, routeVars,
                       adminAsyncVars>>

\* The save of a handler that reads the store again right before it
\* writes.
TabSaveCart_reload(t) ==
    LET tab == tabs[t]
        currentCart == loadCartFromStorage(localStorage, tab.sessionStorage)
        saved == saveCartToStorage(
                     mergeIntoCart(currentCart, tab.handler.cartItem, tab.quantity),
                     localStorage, tab.sessionStorage)
    IN  /\ tab.handler.running
        /\ localStorage' = saved.local
        /\ tabs' = [tabs EXCEPT ![t].sessionStorage = saved.session,
                                ![t].handler = Idle,
                                ![t].added = @ + 1]
        /\ UNCHANGED <<now, discountDocs, pageVars, adminDiscounts, sessionStorage,
                       buyVars, pageError, adminFormVars, routeVars,
                       adminAsyncVars>>

\* Tab t, handleAddToCart from the merge to its end: the cart loaded
\* before is merged with the item and saved to localStorage and to the
\* tab's sessionStorage, in place of whatever localStorage has come to
\* hold since the load.
TabSaveCart(t) ==
    LET tab == tabs[t]
        saved == saveCartToStorage(
                     mergeIntoCart(tab.handler.currentCart, tab.handler.cartItem,
                                   tab.quantity),
                     localStorage, tab.sessionStorage)
    IN  /\ tab.handler.running
        /\ localStorage' = saved.local
        /\ tabs' = [tabs EXCEPT ![t].sessionStorage = saved.session,
                                ![t].handler = Idle,
                                ![t].added = @ + 1]
        /\ UNCHANGED <<now, discountDocs, pageVars, adminDiscounts, sessionStorage,
                       buyVars, pageError, adminFormVars, routeVars,
                       adminAsyncVars>>

\* The browser: a store starts or stops throwing (disabled, quota).
StorageFault ==
    /\ \/ /\ localStorage' = [localStorage EXCEPT !.throws = ~localStorage.throws]
          /\ UNCHANGED sessionStorage
       \/ /\ sessionStorage' = [sessionStorage EXCEPT !.throws = ~sessionStorage.throws]
          /\ UNCHANGED localStorage
    /\ UNCHANGED <<now, discountDocs, pageVars, adminDiscounts,
                   buyVars, pageError, adminFormVars, routeVars, adminAsyncVars, tabs>>

\* The browser: a store loses its content (cleared by the user, a new
\* session).
StorageCleared ==
    /\ \/ /\ localStorage.cartItems # Absent
          /\ localStorage' = [localStorage EXCEPT !.cartItems = Absent]
          /\ UNCHANGED sessionStorage
       \/ /\ sessionStorage.cartItems # Absent
          /\ sessionStorage' = [sessionStorage EXCEPT !.cartItems = Absent]
          /\ UNCHANGED localStorage
    /\ UNCHANGED <<now, discountDocs, pageVars, adminDiscounts,
                   buyVars, pageError, adminFormVars, routeVars, adminAsyncVars, tabs>>

\* The browser: other code of the origin leaves text that is no JSON under
\* the key 'cartItems' of a store.
StorageForeignWrite ==
    /\ \E text \in {"", "oops"} :
          \/ /\ ~localStorage.throws
             /\ localStorage.cartItems # OtherText(text)
             /\ localStorage' = [localStorage EXCEPT !.cartItems = OtherText(text)]
             /\ UNCHANGED sessionStorage
          \/ /\ ~sessionStorage.throws
             /\ sessionStorage.cartItems # OtherText(text)
             /\ sessionStorage' = [sessionStorage EXCEPT !.cartItems = OtherText(text)]
             /\ UNCHANGED localStorage
    /\ UNCHANGED <<now, discountDocs, pageVars, adminDiscounts,
                   buyVars, pageError, adminFormVars, routeVars, adminAsyncVars, tabs>>

---------------------------------------------------------------------------
(* Specifications *)

\* The useState defaults of ProductPage.
InitPageState ==
    /\ product = Null
    /\ discounts = <<>>
    /\ activeDiscount = Null
    /\ quantity = 1
    /\ selectedVariation = Null
    /\ selectedSize = Null
    /\ showSuccess = FALSE
    /\ loading = FALSE
    /\ alerts = 0
    /\ pageError = FALSE

\* The product page right after its mount; its fetch is the fetchProduct
\* action.
InitPage ==
    /\ InitPageState
    /\ location = ProductRoute("p1")
    /\ pendingFetches = <<>>

\* One tab: no other tab of the browser has the shop open.
InitStorage ==
    /\ localStorage = Store(Absent, FALSE)
    /\ sessionStorage = Store(Absent, FALSE)
    /\ buyNowItem = Absent
    /\ tabs = <<>>

\* AdminPortal after its mount: no message, nothing written, nothing logged.
InitAdminForm ==
    /\ discountSuccessMsg = ""
    /\ successMsg = ""
    /\ productWrites = <<>>
    /\ adminConsole = 0
    /\ discountLoading = FALSE
    /\ AP_loading = FALSE
    /\ pendingDiscountWrite = Null
    /\ pendingProductWrite = Null

\* The product page with its cart; both stores work.
Init ==
    /\ now = 0
    /\ discountDocs = CartDocs
    /\ adminDiscounts = <<>>
    /\ InitAdminForm
    /\ InitPage
    /\ InitStorage

Next ==
    \/ CartTick
    \/ PP_onDiscountsSnapshot
    \/ \E id \in ProductIds : fetchProduct(id)
    \/ \E v \in {"red", "blue"} : setSelectedVariation(v)
    \/ \E z \in {"S", "M"} : setSelectedSize(z)
    \/ \E q \in 1..MaxQuantity : setQuantity(q)
    \/ handleAddToCart
    \/ hideSuccess

Spec == Init /\ [][Next]_vars

\* The cart alone: the shopper goes from product to product, selects and
\* adds, while the clock advances; no discount is defined.
NextCart ==
    \/ CartTick
    \/ \E id \in ProductIds : fetchProduct(id)
    \/ \E v \in {"red", "blue"} : setSelectedVariation(v)
    \/ \E z \in {"S", "M"} : setSelectedSize(z)
    \/ \E q \in 1..MaxQuantity : setQuantity(q)
    \/ handleAddToCart

SpecCart == Init /\ [][NextCart]_vars

\* The discount engine of both components over every snapshot of the model.
InitEngine ==
    /\ now = 0
    /\ discountDocs \in Snapshots
    /\ adminDiscounts = <<>>
    /\ InitAdminForm
    /\ InitPage
    /\ InitStorage

NextEngine ==
    \/ Tick
    \/ PP_onDiscountsSnapshot
    \/ AP_onDiscountsSnapshot
    \/ \E id \in ProductIds : fetchProduct(id)

SpecEngine == InitEngine /\ [][NextEngine]_vars

\* The discount engine over one document with every form of time window.
InitActive ==
    /\ now = 0
    /\ discountDocs \in SingleDocSnapshots
    /\ adminDiscounts = <<>>
    /\ InitAdminForm
    /\ InitPage
    /\ InitStorage

SpecActive == InitActive /\ [][NextEngine]_vars

\* The discount engine over snapshots that hold malformed documents.
InitMalformed ==
    /\ now = 0
    /\ discountDocs \in MalformedSnapshots
    /\ adminDiscounts = <<>>
    /\ InitAdminForm
    /\ InitPage
    /\ InitStorage

SpecMalformed == InitMalformed /\ [][NextEngine]_vars

\* The product page while the clock passes a discount's start and end:
\* the collection does not change, so no snapshot follows the first.
InitStale ==
    /\ now = 0
    /\ discountDocs = StaleDocs
    /\ adminDiscounts = <<>>
    /\ InitAdminForm
    /\ InitPage
    /\ InitStorage

NextStale ==
    \/ Tick
    \/ PP_onDiscountsSnapshot
    \/ fetchProduct("p1")
    \/ \E v \in {"red", "blue"} : setSelectedVariation(v)
    \/ handleAddToCart
    \/ handleBuyNow

SpecStale == InitStale /\ [][NextStale]_vars

\* AdminPortal and the "discounts" collection it writes.
InitAdmin ==
    /\ now = 0
    /\ discountDocs = <<>>
    /\ adminDiscounts = <<>>
    /\ InitAdminForm
    /\ InitPage
    /\ InitStorage

NextAdminDiscounts ==
    \/ AP_onDiscountsSnapshot
    \/ \E form \in DiscountForms, accepted \in BOOLEAN :
          handleDiscountSubmit(form, accepted)
    \/ \E n \in 1..MaxDiscountDocs, accepted \in BOOLEAN :
          deleteDiscount(DiscountIds[n], accepted)
    \/ \E n \in 1..MaxDiscountDocs, accepted \in BOOLEAN :
          toggleDiscountStatus(DiscountIds[n], accepted)

SpecAdminDiscounts == InitAdmin /\ [][NextAdminDiscounts]_vars

\* AdminPortal and the "products" collection it writes.
NextAdminProducts ==
    \/ \E form \in ProductForms, editId \in {Null, Str("p1")}, accepted \in BOOLEAN :
          handleSubmit(form, editId, accepted)
    \/ \E id \in ProductIds, accepted \in BOOLEAN : handleDelete(id, accepted)

SpecAdminProducts == InitAdmin /\ [][NextAdminProducts]_vars

\* The handlers that raise a loading flag: the two submits of AdminPortal,
\* each waiting for the store's answer while other events are handled, and
\* the add-to-cart of the product page with stores that may throw.
NextLoading ==
    \/ \E form \in [productIds : {{}, {"p1"}},
                     discountPercentage : {"0", "50"},
                     startDate : {toISOString(1), toISOString(2)},
                     endDate : {toISOString(2)}] :
          handleDiscountSubmitStart(form)
    \/ \E accepted \in BOOLEAN : handleDiscountSubmitSettles(accepted)
    \/ \E form \in [title : {"Rose"}, price : {"100"}], editId \in {Null, Str("p1")} :
          handleSubmitStart(form, editId)
    \/ \E accepted \in BOOLEAN : handleSubmitSettles(accepted)
    \/ fetchProduct("p1")
    \/ handleAddToCart
    \/ StorageFault

\* The store answers every write it was handed, with success or with a
\* rejection: the promise the handler awaits settles.
SpecLoadingSettles ==
    /\ InitAdmin
    /\ [][NextLoading]_vars
    /\ WF_vars(\E accepted \in BOOLEAN : handleDiscountSubmitSettles(accepted))
    /\ WF_vars(\E accepted \in BOOLEAN : handleSubmitSettles(accepted))

\* The product page under the router: the shopper goes from route to
\* route, to products that exist, to one that is not available and to one
\* that does not exist, and the fetches settle in any order.
Mounted == location.path = ProductRoute(MissingId).path

InitRoute ==
    /\ now = 0
    /\ discountDocs = <<>>
    /\ adminDiscounts = <<>>
    /\ InitAdminForm
    /\ InitPageState
    /\ location = HomeRoute
    /\ pendingFetches = <<>>
    /\ InitStorage

NextRoute ==
    \/ \E id \in ProductIds \cup {UnavailableId, MissingId} : navigateToProduct(id)
    \/ \E i \in 1..MaxPendingFetches, rejected \in BOOLEAN :
          i <= Len(pendingFetches) /\ fetchProductSettles(i, rejected)
    \/ handleAddToCart
    \/ handleBuyNow

SpecRoute == InitRoute /\ [][NextRoute]_vars

\* Two tabs of one browser, each showing a product page with a selection
\* made: they share localStorage, each has its own sessionStorage, and the
\* steps of their handleAddToCart runs interleave freely.
TabIds == 1..2

TabSelections ==
    { TabPage(ProductDoc("p1"), Str(v), Str("M")) : v \in {"red", "blue"} }
        \cup { TabPage(ProductDoc("p2"), Null, Str(s)) : s \in {"S", "M"} }

InitTabs ==
    /\ now = 0
    /\ discountDocs = <<>>
    /\ adminDiscounts = <<>>
    /\ InitAdminForm
    /\ InitPage
    /\ localStorage = Store(Absent, FALSE)
    /\ sessionStorage = Store(Absent, FALSE)
    /\ buyNowItem = Absent
    /\ tabs \in [TabIds -> TabSelections]

NextTabs ==
    \/ \E t \in TabIds : TabLoadCart(t)
    \/ \E t \in TabIds : TabSaveCart(t)

SpecTabs == InitTabs /\ [][NextTabs]_vars

\* The product page while its fetches settle, snapshots of the discounts
\* arrive and the administrator enables and disables discounts, in any
\* order.
InitInterleaving ==
    /\ now = 0
    /\ discountDocs = RouteDocs
    /\ adminDiscounts = <<>>
    /\ InitAdminForm
    /\ InitPageState
    /\ location = HomeRoute
    /\ pendingFetches = <<>>
    /\ InitStorage

NextInterleaving ==
    \/ \E id \in ProductIds : navigateToProduct(id)
    \/ \E i \in 1..MaxPendingFetches :
          i <= Len(pendingFetches) /\ fetchProductSettles(i, FALSE)
    \/ Mounted /\ PP_onDiscountsSnapshot
    \/ AP_onDiscountsSnapshot
    \/ \E n \in 1..Len(RouteDocs) : toggleDiscountStatus(DiscountIds[n], TRUE)

SpecInterleaving == InitInterleaving /\ [][NextInterleaving]_vars

\* The cart with stores that fail and lose their content.
InitStorageFaults ==
    /\ now = 0
    /\ discountDocs = <<>>
    /\ adminDiscounts = <<>>
    /\ InitAdminForm
    /\ InitPage
    /\ InitStorage

NextStorage ==
    \/ CartTick
    \/ fetchProduct("p1")
    \/ \E v \in {"red", "blue"} : setSelectedVariation(v)
    \/ handleAddToCart
    \/ StorageFault
    \/ StorageCleared

SpecStorage == InitStorageFaults /\ [][NextStorage]_vars

\* The cart and the buy-now item with stores that fail, lose their content
\* or hold foreign text.
NextSession ==
    \/ NextStorage
    \/ handleBuyNow
    \/ StorageForeignWrite

SpecSession == InitStorageFaults /\ [][NextSession]_vars

\* The items handleAddToCart builds from the catalog, and the carts of up
\* to two of them.
RoundTripItems ==
    { NewCartItem(ProductDoc("p1"), CartDocs[1], 1, Str("red"), Str("M"), 0),
      NewCartItem(ProductDoc("p1"), Null, MaxQuantity, Str("blue"), Str("M"), 1),
      NewCartItem(ProductDoc("p2"), CartDocs[2], 1, Null, Str("S"), 0),
      NewCartItem(ProductDoc("p2"), Null, MaxQuantity, Null, Str("M"), 1) }

RoundTripCarts ==
    {<<>>} \cup { <<a>> : a \in RoundTripItems }
           \cup { <<a, b>> : a \in RoundTripItems, b \in RoundTripItems }

\* What a store may hold under 'cartItems' before a save.
StoredContents ==
    {Absent, OtherText(""), OtherText("oops")}
        \cup { JSONstringify(c) : c \in RoundTripCarts }

\* saveCartToStorage and loadCartFromStorage over working stores that hold
\* any two different contents.
InitRoundTrip ==
    /\ now = 0
    /\ discountDocs = <<>>
    /\ adminDiscounts = <<>>
    /\ InitAdminForm
    /\ InitPage
    /\ localStorage \in { Store(c, FALSE) : c \in StoredContents }
    /\ sessionStorage \in { Store(c, FALSE) : c \in StoredContents }
    /\ localStorage # sessionStorage
    /\ buyNowItem = Absent
    /\ tabs = <<>>

NextRoundTrip == \E cartData \in RoundTripCarts : SaveCartCall(cartData)

SpecRoundTrip == InitRoundTrip /\ [][NextRoundTrip]_vars

\* The price display over every price and percentage of the model: the
\* page holds a product and, when a discount is active, the discount.
PriceDiscount(pct) ==
    DiscountDoc("d1", {"p1"}, pct, Timestamp(0), Timestamp(MaxTime), TRUE, Timestamp(0))

InitPrice ==
    /\ now = 0
    /\ product \in {[ProductDoc("p1") EXCEPT !.price = P] : P \in 0..MaxPrice}
    /\ activeDiscount \in {Null} \cup {PriceDiscount(pct) : pct \in 1..100}
    /\ discountDocs = IF activeDiscount = Null THEN <<>> ELSE <<activeDiscount>>
    /\ discounts = discountDocs
    /\ adminDiscounts = discountDocs
    /\ quantity = 1
    /\ selectedVariation = Str("red")
    /\ selectedSize = Str("M")
    /\ showSuccess = FALSE
    /\ loading = FALSE
    /\ alerts = 0
    /\ pageError = FALSE
    /\ location = ProductRoute("p1")
    /\ pendingFetches = <<>>
    /\ InitAdminForm
    /\ InitStorage

NextPrice == \E q \in 1..MaxShownQuantity : setQuantity(q)

SpecPrice == InitPrice /\ [][NextPrice]_vars

---------------------------------------------------------------------------
(* Properties *)

\* The instant a start or end value denotes, for a store timestamp and for
\* an ISO date string.
IsDateValue(v) ==
    \/ v.kind = "timestamp"
    \/ v.kind = "string" /\ \E t \in 0..(Len(IsoStrings) - 1) : toISOString(t) = v.text

Instant(v) ==
    IF v.kind = "timestamp" THEN v.ms
    ELSE CHOOSE t \in 0..(Len(IsoStrings) - 1) : toISOString(t) = v.text

\* C1: for every discount document whose start and end are store
\* timestamps or date strings, and at every time, isDiscountActive of the
\* product page and of the admin portal are true exactly when the document
\* is enabled and start <= now <= end, both ends included.
C1_ActiveIffEnabledAndInWindow ==
    \A i \in 1..Len(discountDocs) :
        LET d == discountDocs[i]
            expected == /\ d.isActive
                        /\ Instant(d.startDate) <= now
                        /\ now <= Instant(d.endDate)
        IN  (IsDateValue(d.startDate) /\ IsDateValue(d.endDate)) =>
                /\ PP_isDiscountActive(d, now) = expected
                /\ AP_isDiscountActive(d, now) = expected

\* C1 witness: the page resolved a discount whose start is a date string
\* and whose end is a store timestamp, and the clock stands on its start.
C1_Witness ==
    /\ activeDiscount # Null
    /\ activeDiscount.startDate.kind = "string"
    /\ activeDiscount.endDate.kind = "timestamp"
    /\ Instant(activeDiscount.startDate) = now
    /\ now < Instant(activeDiscount.endDate)
    /\ PP_isDiscountActive(activeDiscount, now)
    /\ AP_isDiscountActive(activeDiscount, now)

\* The discount r is the first of ds, in order, that targets p and is
\* active at t, or Null when none is.
Qualifies(d, p, t) == p.id \in d.productIds /\ PP_isDiscountActive(d, t)

IsFirstQualifying(r, p, ds, t) ==
    \/ /\ r = Null
       /\ \A i \in 1..Len(ds) : ~Qualifies(ds[i], p, t)
    \/ \E i \in 1..Len(ds) :
          /\ Qualifies(ds[i], p, t)
          /\ \A j \in 1..(i - 1) : ~Qualifies(ds[j], p, t)
          /\ r = ds[i]

\* C2: every run of the active-discount effect (after a discount snapshot
\* or a product load) leaves in activeDiscount the first discount of the
\* page's snapshot, in snapshot order, that is active and targets the
\* product, or none; resolving again on the same product, snapshot and time
\* gives the same.
C2_ResolvesFirstInSnapshotOrder ==
    [][ (PP_onDiscountsSnapshot \/ \E id \in ProductIds : fetchProduct(id)) =>
          /\ product' # Null => IsFirstQualifying(activeDiscount', product', discounts', now)
          /\ product' = Null => activeDiscount' = Null
          /\ PP_resolveActiveDiscount(product', discounts', now) = activeDiscount' ]_vars

\* C2 witness: the effect chose the second document of a snapshot whose
\* first document does not qualify.
C2_Witness ==
    /\ product # Null
    /\ Len(discounts) = 2
    /\ activeDiscount = discounts[2]
    /\ ~Qualifies(discounts[1], product, now)
    /\ Qualifies(discounts[2], product, now)

\* C3: when the product page and the admin portal have been delivered the
\* same snapshot and the page's activeDiscount is the resolution at the
\* present time, the inventory card of the page's product selects the same
\* discount and shows the same discounted price.
C3_PageAndAdminAgree ==
    ( /\ product # Null
      /\ discounts = discountDocs
      /\ adminDiscounts = AP_sortDiscounts(discountDocs)
      /\ activeDiscount = PP_resolveActiveDiscount(product, discounts, now) ) =>
        LET adminActive == AP_inventoryActiveDiscount(product, adminDiscounts, now)
        IN  /\ adminActive = activeDiscount
            /\ activeDiscount # Null =>
                  AP_inventoryDiscountedPrice(product, adminActive)
                      = getDiscountedPrice(product, activeDiscount)

\* C4: with a discount active, the product page's price, the inventory
\* card's price and the discount list's preview are one and the same
\* integer, a nearest integer of price * (100 - pct) / 100; with no discount
\* active the page's price is the list price.
C4_SamePriceAtEverySite ==
    /\ activeDiscount = Null =>
          /\ getDiscountedPrice(product, activeDiscount) = product.price
          /\ getCurrentPrice(product, activeDiscount) = product.price
    /\ activeDiscount # Null =>
          LET r == getDiscountedPrice(product, activeDiscount)
              n == product.price * (100 - activeDiscount.discountPercentage)
          IN  /\ 100 * r - 50 <= n
              /\ n <= 100 * r + 50
              /\ getCurrentPrice(product, activeDiscount) = r
              /\ AP_inventoryDiscountedPrice(product, activeDiscount) = r
              /\ AP_previewPrice(product, activeDiscount) = r

\* C4 witness: 45 at 30 percent off, an exact tie (31.5) that every site
\* shows as 31.
C4_Witness ==
    /\ activeDiscount # Null
    /\ product.price = 45
    /\ activeDiscount.discountPercentage = 30
    /\ getDiscountedPrice(product, activeDiscount) = 31
    /\ AP_inventoryDiscountedPrice(product, activeDiscount) = 31
    /\ AP_previewPrice(product, activeDiscount) = 31
    /\ quantity = 2

\* C5: for every price >= 0 and every percentage in 1..100 the discounted
\* price is at least 0 and at most the price.
C5_DiscountedPriceWithinBounds ==
    (activeDiscount # Null /\ product.price >= 0
        /\ activeDiscount.discountPercentage \in 1..100) =>
        /\ 0 <= getDiscountedPrice(product, activeDiscount)
        /\ getDiscountedPrice(product, activeDiscount) <= product.price

\* C5 witness: the highest price at 100 percent off costs 0, and the page
\* has rendered it for a changed quantity.
C5_Witness ==
    /\ activeDiscount # Null
    /\ product.price = MaxPrice
    /\ activeDiscount.discountPercentage = 100
    /\ getDiscountedPrice(product, activeDiscount) = 0
    /\ quantity = 2

\* C6: the savings highlight is (price - discounted price) * quantity and
\* is never negative; 1000 at 20 percent off with quantity 3 shows a price
\* of 800 and savings of 600.
C6_SavingsNonNegative ==
    activeDiscount # Null =>
        LET r == getDiscountedPrice(product, activeDiscount)
            shown == PP_savingsHighlight(product, activeDiscount, quantity)
        IN  /\ shown = (product.price - r) * quantity
            /\ shown >= 0
            /\ ( /\ product.price = 1000
                 /\ activeDiscount.discountPercentage = 20
                 /\ quantity = 3 ) => (r = 800 /\ shown = 600)

\* C6 witness: the scenario 1000, 20 percent, quantity 3.
C6_Witness ==
    /\ activeDiscount # Null
    /\ product.price = 1000
    /\ activeDiscount.discountPercentage = 20
    /\ quantity = 3
    /\ PP_savingsHighlight(product, activeDiscount, quantity) = 600

\* The entry of the cart at index i has the configuration selected on the
\* page: the product, the variation and the size.
SameConfiguration(entry) ==
    /\ entry.productId = product.id
    /\ entry.variation = selectedVariation
    /\ entry.size = selectedSize

C8_AppendKeepsOrder ==
    [][ handleAddToCart =>
          LET cur == loadCartFromStorage(localStorage, sessionStorage)
              new == loadCartFromStorage(localStorage', sessionStorage')
          IN  (\A i \in 1..Len(cur) : ~SameConfiguration(cur[i])) =>
                  /\ Len(new) = Len(cur) + 1
                  /\ \A i \in 1..Len(cur) : new[i] = cur[i]
                  /\ SameConfiguration(new[Len(new)])
                  /\ new[Len(new)].quantity = quantity
                  /\ new[Len(new)].id.stamp = now
                  /\ localStorage'.cartItems = JSONstringify(new)
                  /\ sessionStorage'.cartItems = JSONstringify(new) ]_vars

\* C8 witness: the cart holds two entries of one product that differ in
\* the variation alone, the later one last.
C8_Witness ==
    LET cart == loadCartFromStorage(localStorage, sessionStorage)
    IN  /\ Len(cart) = 2
        /\ cart[1].productId = cart[2].productId
        /\ cart[1].variation # cart[2].variation
        /\ cart[1].size = cart[2].size
        /\ cart[1].id.stamp < cart[2].id.stamp
        /\ SameConfiguration(cart[2])

\* C9: every save of handleAddToCart writes the serialized cart to each
\* store that does not throw, whatever the other store does.
C9_SaveWritesEachWorkingStore ==
    [][ handleAddToCart =>
          LET cur == loadCartFromStorage(localStorage, sessionStorage)
              cartItem == NewCartItem(product, activeDiscount, quantity,
                                      selectedVariation, selectedSize, now)
              cartJson == JSONstringify(mergeIntoCart(cur, cartItem, quantity))
          IN  /\ ~localStorage.throws => localStorage'.cartItems = cartJson
              /\ ~sessionStorage.throws => sessionStorage'.cartItems = cartJson ]_vars

\* A store that can be read and holds the JSON text of a cart.
UsableStore(st) == ~st.throws /\ st.cartItems.kind = "json"

\* C10: loadCartFromStorage returns the cart of the persistent store when
\* that store can be read and holds a cart, else the cart of the session
\* store when that one can be read and holds a cart, else the empty cart.
C10_LoadFromWhicheverIsAvailable ==
    loadCartFromStorage(localStorage, sessionStorage) =
        IF UsableStore(localStorage) THEN JSONparse(localStorage.cartItems)
        ELSE IF UsableStore(sessionStorage) THEN JSONparse(sessionStorage.cartItems)
        ELSE <<>>

\* C11: whatever the two stores hold (nothing, a cart, text that is no
\* JSON) and whichever of them throws, loadCartFromStorage and
\* saveCartToStorage return to their caller; a load whose read or parse
\* fails returns the empty cart; a write that fails leaves its store as it
\* was, and a failing first write leaves both stores as they were.
C11_StorageNeverThrows ==
    LET ls == localStorage
        ss == sessionStorage
        load == loadCartFromStorageCompletion(ls, ss)
        readFails == ls.throws \/ (~Truthy(ls.cartItems) /\ ss.throws)
        chosen == IF Truthy(ls.cartItems) THEN ls.cartItems ELSE ss.cartItems
        parseFails == ~readFails /\ chosen.kind = "text" /\ chosen.text # ""
    IN  /\ load.completion = "return"
        /\ load.value = loadCartFromStorage(ls, ss)
        /\ (readFails \/ parseFails) => load.value = <<>>
        /\ \A cartData \in {<<>>, load.value} :
              LET save == saveCartToStorageCompletion(cartData, ls, ss)
              IN  /\ save.completion = "return"
                  /\ [local |-> save.local, session |-> save.session]
                        = saveCartToStorage(cartData, ls, ss)
                  /\ ls.throws => (save.local = ls /\ save.session = ss)
                  /\ ss.throws => save.session = ss

\* C11 witness: after an add the persistent store holds text that is no
\* JSON while the session store holds a cart, and the load gives the empty
\* cart.
C11_Witness ==
    /\ showSuccess
    /\ localStorage.cartItems = OtherText("oops")
    /\ ~localStorage.throws
    /\ sessionStorage.cartItems.kind = "json"
    /\ Len(JSONparse(sessionStorage.cartItems)) > 0
    /\ loadCartFromStorageCompletion(localStorage, sessionStorage) = Return(<<>>)

\* C12: for every cart, the empty one included, and whatever the two
\* working stores held before, loadCartFromStorage right after
\* saveCartToStorage(cart) returns a cart equal to cart, entry by entry and
\* field by field.
C12_SaveThenLoadReturnsCart ==
    [][ \A cartData \in RoundTripCarts :
          SaveCartCall(cartData) =>
              LET loaded == loadCartFromStorage(localStorage', sessionStorage')
              IN  /\ Len(loaded) = Len(cartData)
                  /\ \A i \in 1..Len(cartData) :
                        /\ DOMAIN loaded[i] = DOMAIN cartData[i]
                        /\ \A k \in DOMAIN cartData[i] : loaded[i][k] = cartData[i][k] ]_vars

\* C12 witness: the two stores, different at the start, hold the text of
\* the empty cart after a save, and the load returns the empty cart.
C12_Witness ==
    /\ localStorage.cartItems = JSONstringify(<<>>)
    /\ sessionStorage.cartItems = JSONstringify(<<>>)
    /\ Truthy(localStorage.cartItems)
    /\ loadCartFromStorage(localStorage, sessionStorage) = <<>>

\* A discount document with its product selection and percentage, and with
\* a start and an end that denote instants.
WellFormed(d) ==
    /\ "productIds" \in DOMAIN d
    /\ "discountPercentage" \in DOMAIN d
    /\ IsDateValue(d.startDate)
    /\ IsDateValue(d.endDate)

\* C13: with malformed documents in the snapshot (no productIds, no
\* numeric percentage, a start or end that is no date) the active-discount
\* effect throws nothing, and the discount the page shows is never one of
\* the malformed documents.
C13_MalformedDiscountsDoNotApply ==
    /\ ~pageError
    /\ activeDiscount # Null => WellFormed(activeDiscount)

\* The item records the price of the instant now: the discounted price and
\* the percentage of a discount of the collection that is enabled, targets
\* the page's product and has start <= now <= end, or else the list price
\* and null.
RecordsPriceOfNow(item) ==
    LET hits == {i \in 1..Len(discountDocs) : Qualifies(discountDocs[i], product, now)}
    IN  IF hits # {}
        THEN \E i \in hits :
                /\ item.price = MathRoundDiscounted(product.price,
                                                    discountDocs[i].discountPercentage)
                /\ item.discountApplied = Num(discountDocs[i].discountPercentage)
        ELSE /\ item.price = product.price
             /\ item.discountApplied = Null

\* C14: when the page holds the collection's latest snapshot, the item an
\* add-to-cart appends and the item a buy-now stores record the price of
\* the instant of the click, also when the clock has passed a discount's
\* start or end since the snapshot arrived.
C14_RecordedPriceIsPriceAtClick ==
    [][ /\ ( handleAddToCart /\ discounts = discountDocs ) =>
              LET cur == loadCartFromStorage(localStorage, sessionStorage)
                  new == loadCartFromStorage(localStorage', sessionStorage')
              IN  Len(new) = Len(cur) + 1 => RecordsPriceOfNow(new[Len(new)])
        /\ ( handleBuyNow /\ discounts = discountDocs /\ buyNowItem' # buyNowItem ) =>
              RecordsPriceOfNow(JSONparse(buyNowItem')) ]_vars

\* C15: with selector quantities of 1 and more, after any sequence of
\* add-to-cart actions every entry of the cart held by either store has a
\* quantity that is an integer of at least 1.
C15_CartQuantitiesPositive ==
    \A store \in {localStorage, sessionStorage} :
        store.cartItems.kind = "json" =>
            LET cart == JSONparse(store.cartItems)
            IN  \A i \in 1..Len(cart) :
                    /\ cart[i].quantity \in Nat
                    /\ cart[i].quantity >= 1

\* C15 witness: after adds with the selector on 1, the cart holds an entry
\* of each product, each with quantity 1.
C15_Witness ==
    /\ quantity = 1
    /\ LET cart == loadCartFromStorage(localStorage, sessionStorage)
       IN  /\ Len(cart) = 2
           /\ cart[1].productId # cart[2].productId
           /\ cart[1].quantity = 1
           /\ cart[2].quantity = 1

\* C16: an add-to-cart or a buy-now leaves every entry of the loaded cart
\* in its place, either as it was or, for the entry of the selected
\* configuration on an add, with its quantity raised by the selected
\* quantity; at most one entry is new, the last, of the selected
\* configuration with the selected quantity, and only when no entry had that
\* configuration. No entry goes away, no quantity falls, no entry of another
\* configuration changes, and a buy-now changes nothing of the cart.
C16_OnlyFirstAddAndRepeatedAdd ==
    [][ (handleAddToCart \/ handleBuyNow) =>
          LET cur == loadCartFromStorage(localStorage, sessionStorage)
              new == loadCartFromStorage(localStorage', sessionStorage')
          IN  /\ Len(new) \in {Len(cur), Len(cur) + 1}
              /\ \A i \in 1..Len(cur) :
                    \/ new[i] = cur[i]
                    \/ /\ handleAddToCart
                       /\ SameConfiguration(cur[i])
                       /\ quantity >= 1
                       /\ new[i] = [cur[i] EXCEPT !.quantity = @ + quantity]
              /\ Len(new) = Len(cur) + 1 =>
                    /\ handleAddToCart
                    /\ \A i \in 1..Len(cur) : ~SameConfiguration(cur[i])
                    /\ SameConfiguration(new[Len(new)])
                    /\ new[Len(new)].quantity = quantity
              /\ handleBuyNow => new = cur ]_vars

\* C16 witness: a cart of two configurations of one product, and a buy-now
\* item stored beside it.
C16_Witness ==
    /\ buyNowItem # Absent
    /\ LET cart == loadCartFromStorage(localStorage, sessionStorage)
       IN  /\ Len(cart) = 2
           /\ cart[1].variation # cart[2].variation
           /\ cart[1].quantity = 1
           /\ cart[2].quantity = 1

\* C17: handleBuyNow leaves 'cartItems' of both stores as it was; when the
\* session store takes the write, 'buyNowItem' holds the item of this click
\* alone (the page's product, selection, quantity, price and instant,
\* whatever item or cart entry was there before); when the write throws,
\* 'buyNowItem' stays as it was.
C17_BuyNowReplacesBuyNowItem ==
    [][ handleBuyNow =>
          /\ localStorage' = localStorage
          /\ sessionStorage' = sessionStorage
          /\ IF sessionStorage.throws
             THEN buyNowItem' = buyNowItem
             ELSE /\ buyNowItem'.kind = "json"
                  /\ LET item == JSONparse(buyNowItem')
                     IN  /\ item.id = product.id
                         /\ item.productId = product.id
                         /\ item.title = product.title
                         /\ item.price = getCurrentPrice(product, activeDiscount)
                         /\ item.originalPrice = product.price
                         /\ item.quantity = quantity
                         /\ item.variation = selectedVariation
                         /\ item.size = selectedSize
                         /\ item.createdAt = toISOString(now) ]_vars

\* C17 witness: the cart holds an entry of the configuration and the
\* instant of the stored buy-now item, which has its own quantity.
C17_Witness ==
    /\ buyNowItem # Absent
    /\ LET cart == loadCartFromStorage(localStorage, sessionStorage)
           item == JSONparse(buyNowItem)
       IN  /\ Len(cart) = 1
           /\ cart[1].productId = item.productId
           /\ cart[1].variation = item.variation
           /\ cart[1].quantity = 2
           /\ item.quantity = 1
           /\ item.createdAt # toISOString(0)

\* A form the discount rules accept: a product selected, a percentage that
\* is a number from 1 to 100, a start and an end that are dates, the end
\* after the start.
ValidDiscountForm(form) ==
    /\ form.productIds # {}
    /\ IsIntegerText(form.discountPercentage)
    /\ TextToInt(form.discountPercentage) \in 1..100
    /\ DateParse(form.startDate).valid
    /\ DateParse(form.endDate).valid
    /\ DateParse(form.startDate).ms < DateParse(form.endDate).ms

DiscountErrorMessages ==
    {MsgSelectProduct, MsgPercentage, MsgEndAfterStart, MsgDiscountFailed}

\* C18: handleDiscountSubmit adds a document to the collection only for a
\* form with a product selected, a percentage within 1..100 and an end
\* after its start; for every other form, one whose start or end is no date
\* included, the collection stays as it was and discountSuccessMsg holds an
\* error message.
C18_WritesOnlyValidDiscounts ==
    [][ \A form \in DiscountForms, accepted \in BOOLEAN :
          handleDiscountSubmit(form, accepted) =>
              /\ discountDocs' # discountDocs => ValidDiscountForm(form)
              /\ ~ValidDiscountForm(form) =>
                    /\ discountDocs' = discountDocs
                    /\ discountSuccessMsg' \in DiscountErrorMessages ]_vars

\* C19: every product the admin form has added or updated has a price
\* that is a whole number of at least 0.
C19_WrittenPricesNonNegativeIntegers ==
    \A i \in 1..Len(productWrites) :
        productWrites[i].op \in {"addDoc", "updateDoc"} =>
            /\ "num" \in DOMAIN productWrites[i].price
            /\ productWrites[i].price.num >= 0

\* C20: a write of AdminPortal that the store rejects (it is caught and
\* logged) changes neither collection and leaves exactly one of the two
\* message fields set to a failure message.
C20_RejectedWriteGivesOneMessage ==
    [][ adminConsole' = adminConsole + 1 =>
          /\ discountDocs' = discountDocs
          /\ productWrites' = productWrites
          /\ \/ /\ discountSuccessMsg' = MsgDiscountFailed
                /\ successMsg' = successMsg
             \/ /\ successMsg' = MsgSubmitFailed
                /\ discountSuccessMsg' = discountSuccessMsg ]_vars

\* The start and the end of a discount as Dates.
StartOf(d) == FieldToDate(d.startDate)
EndOf(d) == FieldToDate(d.endDate)

\* C29: for every discount the admin portal lists and at every time, the
\* status label is "Active" exactly when isDiscountActive is true,
\* "Disabled" exactly when the discount is not enabled, "Scheduled" exactly
\* when it is enabled and the time is before its start, "Expired" exactly
\* when it is enabled and the time is after its end; also for a start or an
\* end that is no date.
C29_StatusLabelMatchesIsDiscountActive ==
    \A i \in 1..Len(adminDiscounts) :
        LET d == adminDiscounts[i]
            label == getDiscountStatusText(d, now)
        IN  /\ (label = "Active") = AP_isDiscountActive(d, now)
            /\ (label = "Disabled") = ~d.isActive
            /\ (label = "Scheduled") = (d.isActive /\ DateLT(Date(now), StartOf(d)))
            /\ (label = "Expired") =
                  (d.isActive /\ ~DateLT(Date(now), StartOf(d))
                      /\ DateGT(Date(now), EndOf(d)))

\* The quantity the cart holds of the configuration selected on the page:
\* the sum over the entries of that product, variation and size.
RECURSIVE SelectedQuantity(_)
SelectedQuantity(cart) ==
    IF cart = <<>> THEN 0
    ELSE (IF SameConfiguration(Head(cart)) THEN Head(cart).quantity ELSE 0)
             + SelectedQuantity(Tail(cart))

\* C28: whenever handleAddToCart shows the success banner, no write of the
\* save has failed, and the cart loadCartFromStorage returns afterwards
\* holds the selected configuration with the selected quantity added to
\* what it held before.
C28_SuccessBannerMeansStored ==
    [][ (handleAddToCart /\ showSuccess') =>
          LET cur == loadCartFromStorage(localStorage, sessionStorage)
              new == loadCartFromStorage(localStorage', sessionStorage')
          IN  /\ ~localStorage.throws
              /\ ~sessionStorage.throws
              /\ \E k \in 1..Len(new) : SameConfiguration(new[k])
              /\ SelectedQuantity(new) = SelectedQuantity(cur) + quantity ]_vars

\* Every (productId, variation, size) triple of the catalog's labels.
Configurations ==
    [productId : ProductIds,
     variation : {Null, Str("red"), Str("blue")},
     size : {Null, Str("S"), Str("M")}]

HasConfiguration(entry, c) ==
    /\ entry.productId = c.productId
    /\ entry.variation = c.variation
    /\ entry.size = c.size

\* The entries of the cart with the configuration c, and the sum of their
\* quantities.
EntriesOf(cart, c) == {i \in 1..Len(cart) : HasConfiguration(cart[i], c)}

RECURSIVE QuantityOf(_, _)
QuantityOf(cart, c) ==
    IF cart = <<>> THEN 0
    ELSE (IF HasConfiguration(Head(cart), c) THEN Head(cart).quantity ELSE 0)
             + QuantityOf(Tail(cart), c)

\* C25: starting from the empty cart, the cart of each store holds at most
\* one entry for each (productId, variation, size) triple, and every step
\* changes the quantity held of a triple by exactly the quantity added of
\* it: an add-to-cart raises the quantity of the selected triple by the
\* selected quantity and nothing else changes a quantity. So the entry of a
\* triple holds the sum of the quantities of all adds of that triple.
C25_OneEntryPerTripleWithSummedQuantity ==
    /\ [](\A store \in {localStorage, sessionStorage} :
              store.cartItems.kind = "json" =>
                  \A c \in Configurations :
                      Cardinality(EntriesOf(JSONparse(store.cartItems), c)) <= 1)
    /\ [][ \A cur \in {loadCartFromStorage(localStorage, sessionStorage)},
              new \in {loadCartFromStorage(localStorage', sessionStorage')},
              added \in {IF handleAddToCart THEN quantity ELSE 0} :
                \A c \in Configurations :
                    QuantityOf(new, c) =
                        QuantityOf(cur, c)
                            + (IF /\ added > 0
                                  /\ c = [productId |-> product.id,
                                          variation |-> selectedVariation,
                                          size |-> selectedSize]
                               THEN added ELSE 0) ]_vars

\* C25 witness: after two adds of one triple with the selector on 1, made
\* at different instants, the cart holds that triple once, with quantity 2
\* and the identifier of the first add.
C25_Witness ==
    LET cart == loadCartFromStorage(localStorage, sessionStorage)
    IN  /\ showSuccess
        /\ quantity = 1
        /\ Len(cart) = 1
        /\ HasConfiguration(cart[1], [productId |-> "p2", variation |-> Null,
                                       size |-> Str("M")])
        /\ cart[1].quantity = 2
        /\ cart[1].id.stamp = 0
        /\ now > 0

\* The label is null or one of the labels in the list.
NullOrOneOf(label, labels) ==
    label = Null \/ \E i \in 1..Len(labels) : label = Str(labels[i])

\* The variation and the size of an item belong to the product it names.
SelectionOfItsProduct(item) ==
    LET p == ProductDoc(item.productId)
    IN  /\ NullOrOneOf(item.variation, p.variations)
        /\ NullOrOneOf(item.size, p.sizes)

\* C26: in every cart entry of either store and in the buy-now item, the
\* variation is null or a variation label of the product the item names,
\* and the size is null or a size label of that product (so both are null
\* for a product that has none), also after the page went from one product
\* to another.
C26_SelectionBelongsToProduct ==
    /\ \A store \in {localStorage, sessionStorage} :
          store.cartItems.kind = "json" =>
              \A i \in 1..Len(JSONparse(store.cartItems)) :
                  SelectionOfItsProduct(JSONparse(store.cartItems)[i])
    /\ buyNowItem.kind = "json" => SelectionOfItsProduct(JSONparse(buyNowItem))

\* The cart entries the page's loadCartFromStorage returns.
LoadedCart == loadCartFromStorage(localStorage, sessionStorage)

\* C21: when the fetch for the route id settles and the collection holds
\* no document under that id, the location becomes the home route, the
\* page holds no product, and 'cartItems' of both stores and 'buyNowItem'
\* are as they were.
C21_NotFoundRedirectsHome ==
    [][ \A i \in 1..Len(pendingFetches) :
          ( /\ fetchProductSettles(i, FALSE)
            /\ pendingFetches[i].live
            /\ pendingFetches[i].id = location.id
            /\ ~DocExists(location.id) ) =>
              /\ location' = HomeRoute
              /\ product' = Null
              /\ localStorage' = localStorage
              /\ sessionStorage' = sessionStorage
              /\ buyNowItem' = buyNowItem ]_vars

\* C21 witness: the shopper is on the home route with no fetch in flight,
\* after a visit to a product page that left an entry in the cart and a
\* buy-now that left its item: only the redirect leads from there to the
\* home route.
C21_Witness ==
    /\ location = HomeRoute
    /\ pendingFetches = <<>>
    /\ product = Null
    /\ Len(LoadedCart) = 1
    /\ buyNowItem # Absent

\* C22: whatever the order in which fetches settle and snapshots arrive,
\* activeDiscount is none while the page holds no product or an empty
\* snapshot, and otherwise it is the resolution over the product and the
\* snapshot the page holds now, never over ones it held before.
C22_ActiveDiscountFollowsBothCaches ==
    /\ (product = Null \/ discounts = <<>>) => activeDiscount = Null
    /\ (product # Null /\ discounts # <<>>) =>
          /\ IsFirstQualifying(activeDiscount, product, discounts, now)
          /\ activeDiscount = PP_resolveActiveDiscount(product, discounts, now)

\* C22 witness: the page holds p2 and the latest snapshot, in which the
\* first discount is enabled and the second, the only one on p2, has been
\* disabled since an earlier snapshot; no discount is active although the
\* collection started with one on p2.
C22_Witness ==
    /\ product # Null
    /\ product.id = "p2"
    /\ discounts = discountDocs
    /\ Len(discounts) = 2
    /\ discounts[1].isActive
    /\ ~discounts[2].isActive
    /\ activeDiscount = Null
    /\ pendingFetches = <<>>

\* C27: once no fetch of the mounted page is in flight, the product the
\* page holds is the product of the route id, whatever the order in which
\* the fetches settled.
C27_HeldProductIsOfRouteId ==
    ( /\ Mounted
      /\ product # Null
      /\ \A i \in 1..Len(pendingFetches) : ~pendingFetches[i].live ) =>
        product.id = location.id

\* C30: while the page holds a product that is not available, or loading
\* is true, neither handleAddToCart nor handleBuyNow takes a step: the
\* stores' 'cartItems', 'buyNowItem', the location and the success banner
\* stay as they are.
C30_GuardedHandlersDoNothing ==
    (product # Null /\ (loading \/ ~product.available)) =>
        /\ ~ENABLED handleAddToCart
        /\ ~ENABLED handleBuyNow

\* C30 witness: the page shows the product that is not available, on its
\* route, with an entry in the cart and room for more.
C30_Witness ==
    /\ product # Null
    /\ ~product.available
    /\ location = ProductRoute(product.id)
    /\ pendingFetches = <<>>
    /\ Len(LoadedCart) = 1
    /\ TotalQuantity(LoadedCart) + quantity <= MaxCartQuantity

\* The cart the persistent store holds, as the next load of any tab reads
\* it.
PersistentCart == loadCartFromStorage(localStorage, Store(Absent, FALSE))

\* The quantity a cart holds of the configuration a tab has selected.
TabQuantityIn(cart, tab) ==
    QuantityOf(cart, [productId |-> tab.product.id,
                      variation |-> tab.selectedVariation,
                      size |-> tab.selectedSize])

\* C24: two tabs share the persistent store without coordination, so the
\* last writer wins: when the add-to-cart of a tab saves, the persistent
\* store comes to hold exactly the cart that tab loaded earlier merged with
\* its own item, whatever the other tab has stored since that load.
C24_LastWriterWins ==
    [][ \A t \in TabIds :
          TabSaveCart(t) =>
              PersistentCart' =
                  mergeIntoCart(tabs[t].handler.currentCart,
                                tabs[t].handler.cartItem, tabs[t].quantity) ]_vars

\* C24 witness, the lost update: both tabs have completed an add and
\* neither is in the middle of one, the persistent store holds the add of
\* one tab, and the configuration the other tab added is missing from it.
C24_Witness ==
    \E t, u \in TabIds :
        /\ t # u
        /\ ~tabs[t].handler.running /\ ~tabs[u].handler.running
        /\ tabs[t].added >= 1 /\ tabs[u].added >= 1
        /\ TabQuantityIn(PersistentCart, tabs[u]) >= 1
        /\ TabQuantityIn(PersistentCart, tabs[t]) = 0

\* C23: each loading flag is true only while its action is in progress and
\* is false again once the action has ended, on every path. The product
\* page's loading is false whenever an event can be handled, since
\* handleAddToCart sets and clears it in one run; discountLoading is true
\* exactly while a discount write awaits its answer and loading of
\* AdminPortal exactly while a product write does; and, the store
\* answering every write, a flag that is true becomes false.
C23_LoadingFlagsEndFalse ==
    /\ [](~loading)
    /\ [](discountLoading <=> pendingDiscountWrite # Null)
    /\ [](AP_loading <=> pendingProductWrite # Null)
    /\ (discountLoading ~> ~discountLoading)
    /\ (AP_loading ~> ~AP_loading)

\* C23 witness: a discount write was rejected and its handler has ended
\* with its flag false, a product write is awaiting its answer with its
\* flag true, and an add-to-cart has ended while localStorage throws.
C23_Witness ==
    /\ ~discountLoading
    /\ discountSuccessMsg = MsgDiscountFailed
    /\ AP_loading
    /\ pendingProductWrite # Null
    /\ showSuccess
    /\ localStorage.throws
    /\ ~loading

====
